---------------------------- MODULE Spec2Model ----------------------------
(***************************************************************************)
(* A model of the in-memory event store of stellar-events-api (src/db.rs)  *)
(* and of the event-id functions it calls (src/ledger/event_id.rs).        *)
(*                                                                         *)
(* Strings are sequences of byte values, compared as Rust compares String  *)
(* (bytewise, lexicographically), so the order of event ids is the order   *)
(* of their formatted text and not the order of the tuples behind them.    *)
(* u128 values are sequences of 16 bytes, least significant byte first.    *)
(***************************************************************************)
EXTENDS Integers, Sequences, FiniteSets, TLC

(***************************************************************************)
(* Bounds of the model.                                                    *)
(***************************************************************************)
\* ledger sequences range over 0..MaxLedger
MaxLedger == 2
\* transaction indices of the events offered to insert_events: 0..MaxTx
MaxTx == 0
\* longest event list handed to one insert_events call
MaxInput == 2
\* query limits range over 1..MaxLimit
MaxLimit == 2
\* the clock runs over 0..MaxTime
MaxTime == 1
\* a client asks for at most MaxPages pages
MaxPages == 8
\* EventStore::new(cache_ttl_seconds)
CacheTtlSeconds == 1

\* Option<T>: None, or Some(x) as the one-element sequence of x
None == <<>>

Some(x) == <<x>>

IsSome(o) == o # None

Unwrap(o) == o[1]

(***************************************************************************)
(* Strings as byte sequences.                                              *)
(***************************************************************************)
Digit(d) == 48 + d

Underscore == <<95>>

\* "evt_"
EvtPrefix == <<101, 118, 116, 95>>

RECURSIVE Decimal(_)
\* the decimal digits of n, most significant first ("{}" of an unsigned)
Decimal(n) == IF n < 10 THEN <<Digit(n)>> ELSE Decimal(n \div 10) \o <<Digit(n % 10)>>

RECURSIVE Zeros(_)
Zeros(k) == IF k <= 0 THEN <<>> ELSE <<Digit(0)>> \o Zeros(k - 1)

\* "{:0w}": zero-padded to at least w characters, never truncated
Pad(n, w) == LET d == Decimal(n) IN Zeros(w - Len(d)) \o d

RECURSIVE StrCmpFrom(_, _, _)
StrCmpFrom(a, b, i) ==
    IF i > Len(a) /\ i > Len(b) THEN 0
    ELSE IF i > Len(a) THEN -1
    ELSE IF i > Len(b) THEN 1
    ELSE IF a[i] < b[i] THEN -1
    ELSE IF a[i] > b[i] THEN 1
    ELSE StrCmpFrom(a, b, i + 1)

\* str::cmp: -1, 0, 1 for Less, Equal, Greater
StrCmp(a, b) == StrCmpFrom(a, b, 1)

StrLess(a, b) == StrCmp(a, b) < 0

(***************************************************************************)
(* src/ledger/event_id.rs: internal ids.                                   *)
(***************************************************************************)
EventPhases == {"BeforeAllTxs", "Operation", "AfterTx", "AfterAllTxs"}

as_phase_sub(phase) ==
    CASE phase = "BeforeAllTxs" -> <<0, 0>>
      [] phase = "Operation"    -> <<1, 0>>
      [] phase = "AfterTx"      -> <<1, 1>>
      [] phase = "AfterAllTxs"  -> <<2, 0>>

\* format!("evt_{:010}_{:01}_{:04}_{:01}_{:04}", ledger, phase, tx, sub, event)
FormatEventId(ledger_sequence, phase, tx_index, sub, event_index) ==
    EvtPrefix \o Pad(ledger_sequence, 10) \o Underscore \o Pad(phase, 1) \o Underscore
        \o Pad(tx_index, 4) \o Underscore \o Pad(sub, 1) \o Underscore \o Pad(event_index, 4)

event_id(ledger_sequence, event_phase, tx_index, event_index) ==
    LET ps == as_phase_sub(event_phase)
    IN  FormatEventId(ledger_sequence, ps[1], tx_index, ps[2], event_index)

IsDigits(s) == Len(s) > 0 /\ \A i \in 1..Len(s) : s[i] >= 48 /\ s[i] <= 57

RECURSIVE ParseDecimalFrom(_, _, _, _)
\* the value of the digits s[i..], or -1 once it exceeds max (a parse overflow)
ParseDecimalFrom(s, i, acc, max) ==
    IF acc > max THEN -1
    ELSE IF i > Len(s) THEN acc
    ELSE IF acc > max \div 10 THEN -1
    ELSE ParseDecimalFrom(s, i + 1, acc * 10 + (s[i] - 48), max)

\* str::parse::<uN>() for the digit strings the model meets: None on an empty
\* string, a non-digit or a value above max
ParseUnsigned(s, max) ==
    IF ~IsDigits(s) THEN None
    ELSE LET v == ParseDecimalFrom(s, 1, 0, max) IN IF v < 0 THEN None ELSE Some(v)

RECURSIVE SplitFrom(_, _, _)
\* s[i..].split('_'), cur being the part read so far
SplitFrom(s, i, cur) ==
    IF i > Len(s) THEN <<cur>>
    ELSE IF s[i] = 95 THEN <<cur>> \o SplitFrom(s, i + 1, <<>>)
    ELSE SplitFrom(s, i + 1, Append(cur, s[i]))

StartsWith(s, p) == Len(s) >= Len(p) /\ SubSeq(s, 1, Len(p)) = p

U8Max == 255

\* u32::MAX is beyond the integers of the checker; the ledger, tx and event
\* fields of every id of the model stay far below this cap
ParseCap == 1000000

parse_event_id(id) ==
    IF ~StartsWith(id, EvtPrefix) THEN None
    ELSE LET parts == SplitFrom(id, Len(EvtPrefix) + 1, <<>>)
         IN  IF Len(parts) # 5 THEN None
             ELSE LET ledger_sequence == ParseUnsigned(parts[1], ParseCap)
                      phase == ParseUnsigned(parts[2], U8Max)
                      tx == ParseUnsigned(parts[3], ParseCap)
                      sub == ParseUnsigned(parts[4], U8Max)
                      event == ParseUnsigned(parts[5], ParseCap)
                  IN  IF None \in {ledger_sequence, phase, tx, sub, event} THEN None
                      ELSE Some(<<Unwrap(ledger_sequence), Unwrap(phase), Unwrap(tx),
                                  Unwrap(sub), Unwrap(event)>>)

(***************************************************************************)
(* u128 arithmetic on 16 bytes, least significant byte first.              *)
(***************************************************************************)
Reverse(s) == [i \in 1..Len(s) |-> s[Len(s) + 1 - i]]

RECURSIVE ColumnSum(_, _, _, _)
\* the sum of a[i] * b[k + 1 - i] for i in from..k
ColumnSum(a, b, k, from) ==
    IF from > k THEN 0 ELSE a[from] * b[k + 1 - from] + ColumnSum(a, b, k, from + 1)

RECURSIVE MulFrom(_, _, _, _)
MulFrom(a, b, k, carry) ==
    IF k > Len(a) THEN <<>>
    ELSE LET s == ColumnSum(a, b, k, 1) + carry
         IN  <<s % 256>> \o MulFrom(a, b, k + 1, s \div 256)

\* u128::wrapping_mul
wrapping_mul(a, b) == MulFrom(a, b, 1, 0)

RECURSIVE SubFrom(_, _, _, _)
SubFrom(a, b, k, borrow) ==
    IF k > Len(a) THEN <<>>
    ELSE LET d == a[k] - b[k] - borrow
         IN  <<d % 256>> \o SubFrom(a, b, k + 1, IF d < 0 THEN 1 ELSE 0)

\* u128::wrapping_sub
wrapping_sub(a, b) == SubFrom(a, b, 1, 0)

\* v & ((1 << 112) - 1): the two most significant bytes cleared
MOD_MASK(v) == [i \in 1..16 |-> IF i > 14 THEN 0 ELSE v[i]]

RECURSIVE ReverseByte(_, _)
\* the k lowest bits of b in reverse order
ReverseByte(b, k) ==
    IF k = 0 THEN 0 ELSE (b % 2) * 2 ^ (k - 1) + ReverseByte(b \div 2, k - 1)

\* u128::reverse_bits
reverse_bits(v) == [i \in 1..16 |-> ReverseByte(v[17 - i], 8)]

\* v >> 16
ShiftRight16(v) == [i \in 1..16 |-> IF i > 14 THEN 0 ELSE v[i + 2]]

\* u128::from_be_bytes of two zero bytes followed by the 14 bytes of buf
FromPadded(buf) == Reverse(<<0, 0>> \o buf)

\* val.to_be_bytes()[2..16]
ToBuf(val) == SubSeq(Reverse(val), 3, 16)

U128(n) == [i \in 1..16 |-> IF i = 1 THEN n ELSE 0]

MULTIPLIER_A ==
    FromPadded(<<181, 164, 243, 23, 141, 46, 201, 6, 75, 241, 115, 168, 229, 209>>)

MULTIPLIER_B ==
    FromPadded(<<232, 242, 124, 148, 161, 213, 99, 11, 158, 74, 141, 23, 179, 249>>)

RECURSIVE ModInverseLoop(_, _, _)
ModInverseLoop(m, x, i) ==
    IF i >= 7 THEN x
    ELSE ModInverseLoop(m,
             MOD_MASK(wrapping_mul(x, wrapping_sub(U128(2), wrapping_mul(m, x)))),
             i + 1)

\* a variant of four iterations
mod_inverse_four(m) == ModInverseLoop(m, U128(1), 3)

mod_inverse(m) == ModInverseLoop(m, U128(1), 0)

INVERSE_A == mod_inverse(MULTIPLIER_A)

INVERSE_B == mod_inverse(MULTIPLIER_B)

(***************************************************************************)
(* The base32 text of 14 bytes.                                            *)
(***************************************************************************)
\* b"abcdefghijklmnopqrstuvwxyzBDGNRT"
BASE32_ALPHABET ==
    [i \in 1..26 |-> 96 + i] \o <<66, 68, 71, 78, 82, 84>>

RECURSIVE DrainEncode(_, _, _)
\* while bits >= 5 { bits -= 5; result.push(ALPHABET[(buf >> bits) & 0x1f]) }
\* the bits already pushed are dropped from buf: the code never reads them again
DrainEncode(buf, bits, result) ==
    IF bits < 5 THEN [buf |-> buf, bits |-> bits, result |-> result]
    ELSE DrainEncode(buf % (2 ^ (bits - 5)), bits - 5,
             Append(result, BASE32_ALPHABET[((buf \div (2 ^ (bits - 5))) % 32) + 1]))

RECURSIVE EncodeFrom(_, _, _)
EncodeFrom(data, i, st) ==
    IF i > Len(data) THEN st
    ELSE EncodeFrom(data, i + 1, DrainEncode(st.buf * 256 + data[i], st.bits + 8, st.result))

base32_encode(data) ==
    LET st == EncodeFrom(data, 1, [buf |-> 0, bits |-> 0, result |-> <<>>])
    IN  IF st.bits > 0
        THEN Append(st.result, BASE32_ALPHABET[((st.buf * (2 ^ (5 - st.bits))) % 32) + 1])
        ELSE st.result

\* BASE32_ALPHABET.iter().position(|&c| c == ch)
AlphabetPosition(ch) ==
    IF \E k \in 1..32 : BASE32_ALPHABET[k] = ch
    THEN Some((CHOOSE k \in 1..32 : BASE32_ALPHABET[k] = ch) - 1)
    ELSE None

RECURSIVE DrainDecode(_, _, _)
\* while bits >= 8 && i < 14 { bits -= 8; result[i] = (buf >> bits) & 0xff; i += 1 }
\* buf keeps the 16 lowest bits, more than the code reads again
DrainDecode(buf, bits, result) ==
    IF bits < 8 \/ Len(result) >= 14 THEN [buf |-> buf % 65536, bits |-> bits, result |-> result]
    ELSE DrainDecode(buf, bits - 8, Append(result, (buf \div (2 ^ (bits - 8))) % 256))

RECURSIVE DecodeFrom(_, _, _)
\* the state after s[i..], or None at a character outside the alphabet
DecodeFrom(s, i, st) ==
    IF i > Len(s) THEN Some(st)
    ELSE LET val == AlphabetPosition(s[i])
         IN  IF val = None THEN None
             ELSE DecodeFrom(s, i + 1,
                      DrainDecode(st.buf * 32 + Unwrap(val), st.bits + 5, st.result))

base32_decode(s) ==
    IF Len(s) # 23 THEN None
    ELSE LET st == DecodeFrom(s, 1, [buf |-> 0, bits |-> 0, result |-> <<>>])
         IN  IF st = None THEN None
             ELSE IF Len(Unwrap(st).result) # 14 THEN None
             ELSE Some(Unwrap(st).result)

(***************************************************************************)
(* src/ledger/event_id.rs: external ids.                                   *)
(***************************************************************************)
\* u32::to_be_bytes
U32Bytes(n) == <<(n \div 16777216) % 256, (n \div 65536) % 256, (n \div 256) % 256, n % 256>>

\* u32::from_be_bytes
U32From(b) == ((b[1] * 256 + b[2]) * 256 + b[3]) * 256 + b[4]

\* encode_event_id from the 14 bytes of buf on
EncodeBuf(buf) ==
    LET v0 == FromPadded(buf)
        v1 == MOD_MASK(wrapping_mul(v0, MULTIPLIER_A))
        v2 == ShiftRight16(reverse_bits(v1))
        v3 == MOD_MASK(wrapping_mul(v2, MULTIPLIER_B))
    IN  EvtPrefix \o base32_encode(ToBuf(v3))

\* buf[0..4], buf[4], buf[5..9], buf[9], buf[10..14] of encode_event_id, the
\* u32 fields given as their big-endian bytes
PackFields(ledger_sequence, phase, tx_index, sub, event_index) ==
    ledger_sequence \o <<phase>> \o tx_index \o <<sub>> \o event_index

EncodeEventId(ledger_sequence, phase, tx_index, sub, event_index) ==
    EncodeBuf(PackFields(U32Bytes(ledger_sequence), phase, U32Bytes(tx_index), sub,
                         U32Bytes(event_index)))

\* decode_event_id up to from_be_bytes: the u32 fields as their big-endian bytes
DecodeFields(id) ==
    IF ~StartsWith(id, EvtPrefix) THEN None
    ELSE LET buf == base32_decode(SubSeq(id, Len(EvtPrefix) + 1, Len(id)))
         IN  IF buf = None THEN None
             ELSE LET v0 == FromPadded(Unwrap(buf))
                      v1 == MOD_MASK(wrapping_mul(v0, INVERSE_B))
                      v2 == ShiftRight16(reverse_bits(v1))
                      v3 == MOD_MASK(wrapping_mul(v2, INVERSE_A))
                      bytes == Reverse(v3)
                      phase == bytes[7]
                      sub == bytes[12]
                  IN  IF phase > 2 \/ sub > 1 THEN None
                      ELSE Some(<<SubSeq(bytes, 3, 6), phase, SubSeq(bytes, 8, 11), sub,
                                  SubSeq(bytes, 13, 16)>>)

DecodeEventId(id) ==
    LET fields == DecodeFields(id)
    IN  IF fields = None THEN None
        ELSE Some(<<U32From(Unwrap(fields)[1]), Unwrap(fields)[2], U32From(Unwrap(fields)[3]),
                    Unwrap(fields)[4], U32From(Unwrap(fields)[5])>>)

to_external_id(internal_id) ==
    LET t == parse_event_id(internal_id)
    IN  IF t = None THEN None
        ELSE Some(EncodeEventId(Unwrap(t)[1], Unwrap(t)[2], Unwrap(t)[3], Unwrap(t)[4],
                                Unwrap(t)[5]))

to_internal_id(external_id) ==
    LET t == DecodeEventId(external_id)
    IN  IF t = None THEN None
        ELSE LET ps == <<Unwrap(t)[2], Unwrap(t)[4]>>
             IN  IF ps \notin {as_phase_sub(ph) : ph \in EventPhases} THEN None
                 ELSE Some(event_id(Unwrap(t)[1],
                                    CHOOSE ph \in EventPhases : as_phase_sub(ph) = ps,
                                    Unwrap(t)[3], Unwrap(t)[5]))

(***************************************************************************)
(* The events of the model.                                                *)
(***************************************************************************)
Ledgers == 0..MaxLedger

\* every (ledger, phase, tx, sub, event) the model builds an id from
IdKeys == Ledgers \X (0..2) \X (0..MaxTx) \X (0..1) \X {0}

\* encode_event_id on the ids of the model, computed once
ExternalIdTable == [k \in IdKeys |-> EncodeEventId(k[1], k[2], k[3], k[4], k[5])]

encode_event_id(ledger_sequence, phase, tx_index, sub, event_index) ==
    ExternalIdTable[<<ledger_sequence, phase, tx_index, sub, event_index>>]

\* An ExtractedEvent (src/ledger/events.rs).  ledger_closed_at and data are left
\* out: the store copies them into the rows it returns and never reads them.
\* Operation events are contract events with a contract id, AfterTx events are
\* system events without one; tx_hash names the transaction.
ExtractedEvent(ledger, phase, tx) ==
    [ledger_sequence |-> ledger,
     phase           |-> phase,
     tx_index        |-> tx,
     event_index     |-> 0,
     tx_hash         |-> <<"tx", ledger, tx>>,
     contract_id     |-> IF phase = "Operation" THEN Some("CA") ELSE None,
     event_type      |-> IF phase = "Operation" THEN "Contract" ELSE "System",
     topics_xdr_json |-> IF phase = "Operation" THEN <<"transfer", "GABC">> ELSE <<"fee">>]

\* the events a caller may hand to insert_events
EventPool ==
    {ExtractedEvent(l, ph, tx) : l \in Ledgers, ph \in {"Operation", "AfterTx"}, tx \in 0..MaxTx}

RECURSIVE SeqsUpTo(_, _)
\* the sequences over S of length 0..n
SeqsUpTo(S, n) ==
    IF n = 0 THEN {<<>>}
    ELSE LET shorter == SeqsUpTo(S, n - 1)
         IN  shorter \cup {Append(q, x) : q \in {r \in shorter : Len(r) = n - 1}, x \in S}

\* the arguments of insert_events: the event lists of 1..MaxInput events
InputLists == SeqsUpTo(EventPool, MaxInput) \ {<<>>}

(***************************************************************************)
(* src/db.rs: EventStore.  A store is [ledgers, latest_ledger]; ledgers is *)
(* a function from the cached ledger sequences to their partitions         *)
(* [events, expires_at].  sync_state is a key-value map no operation of    *)
(* the model reads.                                                        *)
(***************************************************************************)
NewStore == [ledgers |-> <<>>, latest_ledger |-> 0]

Max(a, b) == IF a >= b THEN a ELSE b

RECURSIVE SetMax(_)
\* iter().max().unwrap_or(0)
SetMax(S) == IF S = {} THEN 0 ELSE LET x == CHOOSE x \in S : TRUE IN Max(x, SetMax(S \ {x}))

\* DashMap::insert
MapInsert(m, k, v) == [x \in DOMAIN m \cup {k} |-> IF x = k THEN v ELSE m[x]]

EventTypeCode(event_type) ==
    CASE event_type = "Contract"   -> <<0, "contract">>
      [] event_type = "System"     -> <<1, "system">>
      [] event_type = "Diagnostic" -> <<2, "diagnostic">>

\* the StoredEvent insert_events builds from an ExtractedEvent
NewStoredEvent(event) ==
    LET ps == as_phase_sub(event.phase)
    IN  [id              |-> event_id(event.ledger_sequence, event.phase, event.tx_index,
                                      event.event_index),
         external_id     |-> encode_event_id(event.ledger_sequence, ps[1], event.tx_index,
                                             ps[2], event.event_index),
         ledger_sequence |-> event.ledger_sequence,
         contract_id     |-> event.contract_id,
         event_type      |-> EventTypeCode(event.event_type)[1],
         event_type_str  |-> EventTypeCode(event.event_type)[2],
         topics          |-> event.topics_xdr_json,
         tx_hash         |-> event.tx_hash]

\* NewStoredEvent on the events of the pool, computed once
StoredEventTable == [e \in EventPool |-> NewStoredEvent(e)]

StoredEvent(event) == StoredEventTable[event]

\* the row a query returns for a stored event; internal_id is not a field of
\* EventRow: it records which stored event the row was made from
to_event_row(e) ==
    [id              |-> e.external_id,
     ledger_sequence |-> e.ledger_sequence,
     contract_id     |-> e.contract_id,
     event_type      |-> e.event_type_str,
     topics          |-> e.topics,
     tx_hash         |-> e.tx_hash,
     internal_id     |-> e.id]

RECURSIVE InsertSorted(_, _)
\* sorted with e put behind every element that is not greater (a stable sort)
InsertSorted(sorted, e) ==
    IF sorted = <<>> THEN <<e>>
    ELSE IF StrLess(e.id, Head(sorted).id) THEN <<e>> \o sorted
    ELSE <<Head(sorted)>> \o InsertSorted(Tail(sorted), e)

RECURSIVE SortFrom(_, _, _)
SortFrom(events, i, sorted) ==
    IF i > Len(events) THEN sorted
    ELSE SortFrom(events, i + 1, InsertSorted(sorted, events[i]))

\* stored.sort_by(|a, b| a.id.cmp(&b.id))
sort_by_id(events) == SortFrom(events, 1, <<>>)

\* by_ledger[ledger_seq]: the events of the list with that ledger, in list order
ByLedger(events, ledger_seq) ==
    LET OfLedger(e) == e.ledger_sequence = ledger_seq IN SelectSeq(events, OfLedger)

InputLedgers(events) == {events[i].ledger_sequence : i \in 1..Len(events)}

\* insert_events without its contains_key check: a cached ledger is overwritten
InsertLedgerOverwrite(store, ledger_seq, ledger_events, t) ==
    LET stored == sort_by_id([i \in 1..Len(ledger_events) |-> StoredEvent(ledger_events[i])])
        partition == [events |-> stored, expires_at |-> t + CacheTtlSeconds]
    IN  [ledgers       |-> MapInsert(store.ledgers, ledger_seq, partition),
         latest_ledger |-> Max(store.latest_ledger, ledger_seq)]

\* the body of the loop of insert_events for one ledger of by_ledger
InsertLedger(store, ledger_seq, ledger_events, t) ==
    IF ledger_seq \in DOMAIN store.ledgers THEN store
    ELSE LET stored == sort_by_id([i \in 1..Len(ledger_events) |-> StoredEvent(ledger_events[i])])
             partition == [events |-> stored, expires_at |-> t + CacheTtlSeconds]
         IN  [ledgers       |-> MapInsert(store.ledgers, ledger_seq, partition),
              latest_ledger |-> Max(store.latest_ledger, ledger_seq)]

RECURSIVE InsertLedgers(_, _, _, _)
\* the loop over by_ledger.  A HashMap is walked in no fixed order; each turn
\* touches its own key and fetch_max commutes, so one order stands for all
InsertLedgers(store, events, todo, t) ==
    IF todo = {} THEN store
    ELSE LET ledger_seq == CHOOSE l \in todo : \A m \in todo : l <= m
         IN  InsertLedgers(InsertLedger(store, ledger_seq, ByLedger(events, ledger_seq), t),
                           events, todo \ {ledger_seq}, t)

\* EventStore::insert_events at time t; it returns Ok(())
insert_events(store, events, t) == InsertLedgers(store, events, InputLedgers(events), t)

\* EventStore::record_ledger_cached at time t; it returns Ok(())
record_ledger_cached(store, ledger_sequence, t) ==
    IF ledger_sequence \notin DOMAIN store.ledgers
    THEN [ledgers       |-> MapInsert(store.ledgers, ledger_sequence,
                                      [events |-> <<>>, expires_at |-> t + CacheTtlSeconds]),
          latest_ledger |-> Max(store.latest_ledger, ledger_sequence)]
    ELSE store

\* EventStore::is_ledger_cached at time t
is_ledger_cached(store, ledger_sequence, t) ==
    ledger_sequence \in DOMAIN store.ledgers /\ store.ledgers[ledger_sequence].expires_at > t

\* EventStore::find_uncached_ledgers at time t, as the set of the sequences it lists
find_uncached_ledgers(store, start, count, t) ==
    {seq \in start..(start + count - 1) :
        seq \notin DOMAIN store.ledgers \/ store.ledgers[seq].expires_at <= t}

\* EventStore::latest_ledger_sequence
latest_ledger_sequence(store) ==
    IF store.latest_ledger = 0 THEN None ELSE Some(store.latest_ledger)

\* EventStore::cached_ledger_count
cached_ledger_count(store) == Cardinality(DOMAIN store.ledgers)

\* the keys cleanup_expired collects at time t
ExpiredKeys(store, t) == {seq \in DOMAIN store.ledgers : store.ledgers[seq].expires_at <= t}

\* cleanup_expired up to the scan for the new latest ledger: the expired
\* partitions are removed, and with removed > 0 the greatest key left is read
cleanup_scan(store, t) ==
    LET expired == ExpiredKeys(store, t)
        removed == Cardinality(expired)
        kept == [seq \in DOMAIN store.ledgers \ expired |-> store.ledgers[seq]]
    IN  [ledgers    |-> kept,
         removed    |-> removed,
         new_latest |-> IF removed > 0 THEN Some(SetMax(DOMAIN kept)) ELSE None]

\* the end of cleanup_expired: latest_ledger.store(new_latest) when removed > 0
cleanup_store(latest, scan) == IF IsSome(scan.new_latest) THEN Unwrap(scan.new_latest) ELSE latest

\* EventStore::cleanup_expired at time t with no other call in between: the
\* store it leaves and the count it returns
cleanup_expired(store, t) ==
    LET scan == cleanup_scan(store, t)
    IN  [store   |-> [ledgers       |-> scan.ledgers,
                      latest_ledger |-> cleanup_store(store.latest_ledger, scan)],
         removed |-> scan.removed]

(***************************************************************************)
(* src/db.rs: filters.  An EventFilter is [contract_id, event_type,        *)
(* topics, any_topics], each an Option; a topic is a JSON value, "null"    *)
(* being the wildcard of a positional filter.                              *)
(***************************************************************************)
JsonNull == "null"

\* StoredEvent::matches_filter
matches_filter(e, filter) ==
    /\ IsSome(filter.contract_id) =>
           (IsSome(e.contract_id) /\ Unwrap(e.contract_id) = Unwrap(filter.contract_id))
    /\ IsSome(filter.event_type) =>
           /\ Unwrap(filter.event_type) \in {"contract", "system", "diagnostic"}
           /\ e.event_type = (CASE Unwrap(filter.event_type) = "contract"   -> 0
                                [] Unwrap(filter.event_type) = "system"     -> 1
                                [] Unwrap(filter.event_type) = "diagnostic" -> 2)
    /\ (IsSome(filter.topics) /\ Unwrap(filter.topics) # <<>>) =>
           LET topics == Unwrap(filter.topics)
           IN  /\ Len(e.topics) >= Len(topics)
               /\ \A i \in 1..Len(topics) : topics[i] = JsonNull \/ e.topics[i] = topics[i]
    /\ IsSome(filter.any_topics) =>
           LET any_topics == Unwrap(filter.any_topics)
           IN  \A k \in 1..Len(any_topics) :
                   \E i \in 1..Len(e.topics) : e.topics[i] = any_topics[k]

\* a variant that leaves the tx constraint out
event_matches_any(e, params) ==
    \/ params.filters = <<>>
    \/ \E i \in 1..Len(params.filters) : matches_filter(e, params.filters[i])

\* EventStore::event_matches
event_matches(e, params) ==
    /\ IsSome(params.tx) => e.tx_hash = Unwrap(params.tx)
    /\ \/ params.filters = <<>>
       \/ \E i \in 1..Len(params.filters) : matches_filter(e, params.filters[i])

(***************************************************************************)
(* src/db.rs: queries.  A scan carries [results, last_examined_id,         *)
(* examined]; examined lists the internal ids of the events the scan has   *)
(* looked at, which the code does not keep.                                *)
(***************************************************************************)
\* slice::binary_search_by(|e| e.id.cmp(key)) on a slice sorted by id: Ok(pos) is
\* [found |-> TRUE], Err(pos) is [found |-> FALSE], pos counted from 0.  With
\* several matches the standard library promises only that one of them is found.
binary_search_by(events, key) ==
    IF \E i \in 1..Len(events) : events[i].id = key
    THEN {[found |-> TRUE, pos |-> i - 1] : i \in {j \in 1..Len(events) : events[j].id = key}}
    ELSE {[found |-> FALSE,
           pos   |-> Cardinality({j \in 1..Len(events) : StrLess(events[j].id, key)})]}

\* searched counts the partitions the scan has taken a handle on, which the code
\* does not keep either
NewScan == [results |-> <<>>, last_examined_id |-> None, examined |-> <<>>, searched |-> 0]

RECURSIVE ScanFrom(_, _, _, _, _)
\* for event in iter { if results.len() >= limit { break; }
\*     last_examined_id = Some(external_id); if !matches { continue; } results.push(row) }
ScanFrom(iter, i, limit, params, scan) ==
    IF i > Len(iter) \/ Len(scan.results) >= limit THEN scan
    ELSE ScanFrom(iter, i + 1, limit, params,
             [results          |-> IF event_matches(iter[i], params)
                                   THEN Append(scan.results, to_event_row(iter[i]))
                                   ELSE scan.results,
              last_examined_id |-> Some(iter[i].external_id),
              examined         |-> Append(scan.examined, iter[i].id),
              searched         |-> scan.searched])

\* the loop breaking one event late (results.len() > limit)
ScanPastLimit(iter, limit, params, scan) == ScanFrom(iter, 1, limit + 1, params, scan)

Scan(iter, limit, params, scan) == ScanFrom(iter, 1, limit, params, scan)

\* events.iter().skip(start)
Skip(events, start) == SubSeq(events, start + 1, Len(events))

\* events[..end].iter().rev()
RevPrefix(events, end) == Reverse(SubSeq(events, 1, end))

\* an EventQueryResult whose next is the id of the last returned row
QueryResultLastReturned(data, scan) ==
    [data     |-> data,
     next     |-> IF scan.results = <<>> THEN None
                  ELSE Some(scan.results[Len(scan.results)].id),
     examined |-> scan.examined,
     searched |-> scan.searched]

\* the EventQueryResult of a finished scan, with the ids it examined
QueryResult(data, scan) ==
    [data |-> data, next |-> scan.last_examined_id, examined |-> scan.examined,
     searched |-> scan.searched]

EmptyResult == QueryResult(<<>>, NewScan)

\* EventStore::query_single_ledger, for one outcome bs of its binary search
SingleLedgerWith(events, params, bs) ==
    IF IsSome(params.after)
    THEN LET start == IF bs.found THEN bs.pos + 1 ELSE bs.pos
             scan == Scan(Skip(events, start), params.limit, params,
                          [NewScan EXCEPT !.searched = 1])
         IN  QueryResult(Reverse(scan.results), scan)
    ELSE LET end == IF IsSome(params.before) THEN bs.pos ELSE Len(events)
             scan == Scan(RevPrefix(events, end), params.limit, params,
                          [NewScan EXCEPT !.searched = 1])
         IN  QueryResult(scan.results, scan)

\* EventStore::query_single_ledger: the results it may return
query_single_ledger(store, ledger_seq, params) ==
    IF ledger_seq \notin DOMAIN store.ledgers THEN {EmptyResult}
    ELSE LET events == store.ledgers[ledger_seq].events
             cursor == IF IsSome(params.after) THEN params.after ELSE params.before
         IN  IF cursor = None THEN {SingleLedgerWith(events, params, [found |-> FALSE, pos |-> 0])}
             ELSE {SingleLedgerWith(events, params, bs) :
                      bs \in binary_search_by(events, Unwrap(cursor))}

\* parse_event_id(cursor).map(|(seq, _, _, _, _)| seq)
CursorLedger(cursor) ==
    LET t == parse_event_id(cursor) IN IF t = None THEN None ELSE Some(Unwrap(t)[1])

RECURSIVE SortedSeq(_, _)
\* the elements of S ascending (up = TRUE) or descending
SortedSeq(S, up) ==
    IF S = {} THEN <<>>
    ELSE LET x == CHOOSE x \in S : \A y \in S : IF up THEN x <= y ELSE x >= y
         IN  <<x>> \o SortedSeq(S \ {x}, up)

RECURSIVE CrossAfterFrom(_, _, _, _, _, _, _)
\* the loop of query_cross_ledger_after over ledger_seqs[k..]
CrossAfterFrom(store, ledger_seqs, k, cursor_ledger, params, bs, scan) ==
    IF k > Len(ledger_seqs) THEN scan
    ELSE LET seq == ledger_seqs[k]
         IN  IF IsSome(cursor_ledger) /\ seq < Unwrap(cursor_ledger)
             THEN CrossAfterFrom(store, ledger_seqs, k + 1, cursor_ledger, params, bs, scan)
             ELSE IF Len(scan.results) >= params.limit THEN scan
             ELSE LET events == store.ledgers[seq].events
                      start == IF Some(seq) = cursor_ledger
                               THEN (IF bs.found THEN bs.pos + 1 ELSE bs.pos)
                               ELSE 0
                  IN  CrossAfterFrom(store, ledger_seqs, k + 1, cursor_ledger, params, bs,
                          Scan(Skip(events, start), params.limit, params,
                               [scan EXCEPT !.searched = @ + 1]))

RECURSIVE CrossBeforeFrom(_, _, _, _, _, _, _)
\* the loop of query_cross_ledger_before over ledger_seqs[k..]
CrossBeforeFrom(store, ledger_seqs, k, cursor_ledger, params, bs, scan) ==
    IF k > Len(ledger_seqs) THEN scan
    ELSE LET seq == ledger_seqs[k]
         IN  IF IsSome(cursor_ledger) /\ seq > Unwrap(cursor_ledger)
             THEN CrossBeforeFrom(store, ledger_seqs, k + 1, cursor_ledger, params, bs, scan)
             ELSE IF Len(scan.results) >= params.limit THEN scan
             ELSE LET events == store.ledgers[seq].events
                      end == IF Some(seq) = cursor_ledger THEN bs.pos ELSE Len(events)
                  IN  CrossBeforeFrom(store, ledger_seqs, k + 1, cursor_ledger, params, bs,
                          Scan(RevPrefix(events, end), params.limit, params,
                               [scan EXCEPT !.searched = @ + 1]))

\* the outcomes of the one binary search a cross-ledger query makes: in the
\* partition of the cursor's ledger, when that ledger is cached
CursorSearches(store, cursor) ==
    LET cl == CursorLedger(cursor)
    IN  IF IsSome(cl) /\ Unwrap(cl) \in DOMAIN store.ledgers
        THEN binary_search_by(store.ledgers[Unwrap(cl)].events, cursor)
        ELSE {[found |-> FALSE, pos |-> 0]}

\* EventStore::query_cross_ledger_after: the results it may return
query_cross_ledger_after(store, after, params) ==
    {LET scan == CrossAfterFrom(store, SortedSeq(DOMAIN store.ledgers, TRUE), 1,
                                CursorLedger(after), params, bs, NewScan)
     IN  QueryResult(Reverse(scan.results), scan) : bs \in CursorSearches(store, after)}

\* EventStore::query_cross_ledger_before: the results it may return
query_cross_ledger_before(store, before, params) ==
    {LET scan == CrossBeforeFrom(store, SortedSeq(DOMAIN store.ledgers, FALSE), 1,
                                 CursorLedger(before), params, bs, NewScan)
     IN  QueryResult(scan.results, scan) : bs \in CursorSearches(store, before)}

\* a variant that honours the ledger only when no cursor is given
PinnedLedgerWithoutCursor(store, params) ==
    IF params.after = None /\ params.before = None
    THEN (IF params.ledger # None THEN params.ledger
          ELSE IF store.latest_ledger = 0 THEN None ELSE Some(store.latest_ledger))
    ELSE None

\* the ledger query_events pins the query to
PinnedLedger(store, params) ==
    IF params.after = None /\ params.before = None /\ params.ledger = None
    THEN (IF store.latest_ledger = 0 THEN None ELSE Some(store.latest_ledger))
    ELSE params.ledger

\* EventStore::query_events: the results it may return
query_events(store, params) ==
    LET pinned_ledger == PinnedLedger(store, params)
    IN  IF IsSome(pinned_ledger) THEN query_single_ledger(store, Unwrap(pinned_ledger), params)
        ELSE IF IsSome(params.after)
             THEN query_cross_ledger_after(store, Unwrap(params.after), params)
        ELSE IF IsSome(params.before)
             THEN query_cross_ledger_before(store, Unwrap(params.before), params)
        ELSE {EmptyResult}

(***************************************************************************)
(* The state: one EventStore, the clock its operations read, the call a    *)
(* caller has made on the store with what it returned, and the eviction    *)
(* task.  The tailer and the request handlers are modelled as one caller   *)
(* whose calls are made one at a time: it takes the result of a call       *)
(* (Return) before its next call.  The eviction task is a task of its own  *)
(* on a multi-threaded runtime (tokio::spawn in run_sync), so its          *)
(* cleanup_expired runs beside the calls of the others: a call may fall    *)
(* between its scan of the keys for the new latest ledger and its store to *)
(* latest_ledger.  An insert's two writes (the map insert and fetch_max)   *)
(* are one step: fetch_max can only raise latest_ledger to a key of the    *)
(* map, so splitting them adds no final state.                             *)
(***************************************************************************)
VARIABLES
    ledgers,        \* EventStore.ledgers
    latest_ledger,  \* EventStore.latest_ledger
    now,            \* chrono::Utc::now().timestamp()
    last,           \* the call that has just returned, its arguments and its result
    eviction,       \* the eviction task: where it stands in cleanup_expired
    client,         \* a client that follows the next cursor, page by page
    entries,        \* EventStore.ledgers as its tasks see it: ledger -> Arc handle
    partitions,     \* the LedgerPartition allocations the Arc handles point to
    writer,         \* the tailer and a backfill: where each stands in its calls
    reader          \* a request handler: where it stands in its read

\* the variables of the step-by-step view of the store
concVars == <<entries, partitions, writer, reader>>

vars == <<ledgers, latest_ledger, now, last, eviction, client, entries, partitions, writer,
          reader>>

\* the requests that backfill
Backfills == {"request1", "request2"}

\* the tasks that store ledgers
Writers == {"tailer"} \cup Backfills

WriterIdle == [pc |-> "idle"]

ReaderIdle == [pc |-> "idle"]

store == [ledgers |-> ledgers, latest_ledger |-> latest_ledger]

NoCall == [op |-> "none"]

Sleeping == [pc |-> "sleeping"]

Idle == [phase |-> "idle"]

\* EventStore::new
Init ==
    /\ ledgers = NewStore.ledgers
    /\ latest_ledger = NewStore.latest_ledger
    /\ now = 0
    /\ last = NoCall
    /\ eviction = Sleeping
    /\ client = Idle
    /\ entries = <<>>
    /\ partitions = <<>>
    /\ writer = [w \in Writers |-> WriterIdle]
    /\ reader = ReaderIdle

\* the eviction task after a call that leaves the map as new_ledgers: a call that
\* changes the map between the scan and the store of cleanup_expired ran beside it
Beside(new_ledgers) ==
    IF eviction.pc = "scanned" /\ new_ledgers # ledgers
    THEN [eviction EXCEPT !.alone = FALSE]
    ELSE eviction

SetStore(s) ==
    /\ ledgers' = s.ledgers
    /\ latest_ledger' = s.latest_ledger

\* a call of insert_events(events); before is the store the call found
InsertEventsCall ==
    /\ last = NoCall /\ client = Idle
    /\ \E events \in InputLists :
           /\ SetStore(insert_events(store, events, now))
           /\ last' = [op |-> "insert_events", events |-> events, before |-> store,
                       ret |-> "Ok"]
    /\ eviction' = Beside(ledgers')
    /\ UNCHANGED <<now, client>>
    /\ UNCHANGED concVars

\* a call of record_ledger_cached(ledger_sequence, _)
RecordLedgerCachedCall ==
    /\ last = NoCall /\ client = Idle
    /\ \E ledger_sequence \in Ledgers :
           /\ SetStore(record_ledger_cached(store, ledger_sequence, now))
           /\ last' = [op |-> "record_ledger_cached", ledger_sequence |-> ledger_sequence,
                       ret |-> "Ok"]
    /\ eviction' = Beside(ledgers')
    /\ UNCHANGED <<now, client>>
    /\ UNCHANGED concVars

\* the caller takes the result
Return ==
    /\ last # NoCall
    /\ last' = NoCall
    /\ UNCHANGED <<ledgers, latest_ledger, now, eviction, client>>
    /\ UNCHANGED concVars

\* the eviction task calls cleanup_expired(), which removes the expired
\* partitions and reads the greatest key left
CleanupExpiredScan ==
    /\ last = NoCall /\ client = Idle
    /\ eviction.pc \in {"sleeping", "returned"}
    /\ LET scan == cleanup_scan(store, now)
       IN  /\ ledgers' = scan.ledgers
           /\ eviction' = [pc |-> "scanned", now |-> now, removed |-> scan.removed,
                           new_latest |-> scan.new_latest, alone |-> TRUE]
    /\ UNCHANGED <<latest_ledger, now, last, client>>
    /\ UNCHANGED concVars

\* cleanup_expired stores the new latest ledger and returns the count
CleanupExpiredStore ==
    /\ last = NoCall /\ client = Idle
    /\ eviction.pc = "scanned"
    /\ latest_ledger' = cleanup_store(latest_ledger, eviction)
    /\ eviction' = [pc |-> "returned", now |-> eviction.now, ret |-> eviction.removed,
                    alone |-> eviction.alone]
    /\ UNCHANGED <<ledgers, now, last, client>>
    /\ UNCHANGED concVars

\* a second passes
Tick ==
    /\ last = NoCall /\ client = Idle
    /\ now < MaxTime
    /\ now' = now + 1
    /\ UNCHANGED <<ledgers, latest_ledger, last, eviction, client>>
    /\ UNCHANGED concVars

Next ==
    \/ InsertEventsCall
    \/ RecordLedgerCachedCall
    \/ Return
    \/ CleanupExpiredScan
    \/ CleanupExpiredStore
    \/ Tick

\* the store under inserts, eviction and the passing of time
Spec == Init /\ [][Next]_vars

(***************************************************************************)
(* Queries.  The cursors are the internal ids of the events of the pool,   *)
(* cached or not; tx is given only with a ledger.                          *)
(***************************************************************************)
Cursors == {StoredEvent(e).id : e \in EventPool}

\* type:system
SystemFilter ==
    [contract_id |-> None, event_type |-> Some("system"), topics |-> None, any_topics |-> None]

\* contract:CA topic0:transfer, with GABC among the topics
TransferFilter ==
    [contract_id |-> Some("CA"), event_type |-> None, topics |-> Some(<<"transfer">>),
     any_topics |-> Some(<<"GABC">>)]

FilterLists == {<<>>, <<SystemFilter>>, <<TransferFilter>>}

CursorPairs ==
    {<<None, None>>} \cup {<<Some(c), None>> : c \in Cursors}
        \cup {<<None, Some(c)>> : c \in Cursors}

LedgerTxPairs ==
    {<<None, None>>} \cup {<<Some(l), None>> : l \in Ledgers}
        \cup {<<Some(l), Some(<<"tx", l, 0>>)>> : l \in Ledgers}

\* the EventQueryParams of the model
QueryParams ==
    {[limit |-> n, after |-> c[1], before |-> c[2], ledger |-> lt[1], tx |-> lt[2],
      filters |-> f] :
        n \in 1..MaxLimit, c \in CursorPairs, lt \in LedgerTxPairs, f \in FilterLists}

\* a call of query_events(params)
QueryEventsCall ==
    /\ last = NoCall /\ client = Idle
    /\ \E params \in QueryParams :
           \E result \in query_events(store, params) :
               last' = [op |-> "query_events", params |-> params, result |-> result]
    /\ UNCHANGED <<ledgers, latest_ledger, now, eviction, client>>
    /\ UNCHANGED concVars

QueryNext ==
    \/ InsertEventsCall
    \/ RecordLedgerCachedCall
    \/ QueryEventsCall
    \/ Return

\* the store under inserts and queries.  A query reads neither the clock nor
\* expires_at; the clock stands still and the eviction task sleeps here.
QuerySpec == Init /\ [][QueryNext]_vars

(***************************************************************************)
(* A client that pages through the events: a first request with no cursor  *)
(* and no ledger, then the same request with before set to the next of the *)
(* previous response, until a response has no next.  The store does not    *)
(* change while the client pages.                                          *)
(***************************************************************************)
\* to_internal_id on the external ids of the model, computed once
InternalIdTable ==
    [x \in {ExternalIdTable[k] : k \in IdKeys} |-> to_internal_id(x)]

\* the cursor the handler makes of the before parameter of a request
BeforeCursor(next) == InternalIdTable[next]

StartPaging ==
    /\ last = NoCall /\ client = Idle
    /\ \E limit \in 1..MaxLimit, filters \in FilterLists :
           client' = [phase |-> "paging", limit |-> limit, filters |-> filters,
                      before |-> None, pages |-> 0, collected |-> <<>>]
    /\ UNCHANGED <<ledgers, latest_ledger, now, last, eviction>>
    /\ UNCHANGED concVars

\* one request of the client and its response
FetchPage ==
    /\ client.phase = "paging"
    /\ client.pages < MaxPages
    /\ LET params == [limit |-> client.limit, after |-> None, before |-> client.before,
                      ledger |-> None, tx |-> None, filters |-> client.filters]
       IN  \E result \in query_events(store, params) :
               client' = [client EXCEPT
                   !.phase = IF IsSome(result.next) THEN "paging" ELSE "done",
                   !.before = IF IsSome(result.next) THEN BeforeCursor(Unwrap(result.next))
                              ELSE None,
                   !.pages = @ + 1,
                   !.collected = @ \o [i \in 1..Len(result.data) |-> result.data[i].internal_id]]
    /\ UNCHANGED <<ledgers, latest_ledger, now, last, eviction>>
    /\ UNCHANGED concVars

PageNext ==
    \/ InsertEventsCall
    \/ RecordLedgerCachedCall
    \/ Return
    \/ StartPaging
    \/ FetchPage

\* the store under inserts, then a client paging through it
PageSpec == Init /\ [][PageNext]_vars

(***************************************************************************)
(* What the properties speak of.                                           *)
(***************************************************************************)
IsQuery == last.op = "query_events"

(***************************************************************************)
(* The store step by step.  EventStore's methods take &self and hold no    *)
(* lock across their statements, so the tailer, a backfill, the cleanup    *)
(* task and a request handler interleave between any two accesses to the   *)
(* map and to latest_ledger.  Each access is one action here.  The map     *)
(* holds Arc handles; a partition lives while its strong count is above 0. *)
(***************************************************************************)

\* the most partitions allocated in one behaviour
MaxPartitions == 3

\* the ledgers the tasks fetch
FetchLedgers == 1..MaxLedger

\* what the remote data store holds for a ledger, in extraction order: the
\* fee event of the transaction is extracted before its operation event
RemoteLedger(seq) ==
    IF seq = 1
    THEN <<ExtractedEvent(1, "AfterTx", 0), ExtractedEvent(1, "Operation", 0)>>
    ELSE <<>>

\* Arc::new(LedgerPartition { events, expires_at }) for a ledger
NewPartition(seq, events, t) ==
    [ledger |-> seq, events |-> events, expires_at |-> t + CacheTtlSeconds, strong |-> 1]

\* the partition insert_events builds from the extracted events of one ledger
BuildPartition(seq, events, t) ==
    NewPartition(seq, sort_by_id([i \in 1..Len(events) |-> StoredEvent(events[i])]), t)

\* the strong count of a partition goes up (Arc::clone) or down (drop)
Retain(heap, h) == [heap EXCEPT ![h].strong = @ + 1]

Release(heap, h) == [heap EXCEPT ![h].strong = @ - 1]

ReleaseAll(heap, hs) == [h \in DOMAIN heap |-> IF h \in hs THEN Release(heap, h)[h] ELSE heap[h]]

\* DashMap::insert: the map takes the new handle and the handle it replaces,
\* if any, is dropped
MapInstall(seq, partition) ==
    /\ Len(partitions) < MaxPartitions
    /\ LET h == Len(partitions) + 1
           heap == Append(partitions, partition)
       IN  /\ partitions' = IF seq \in DOMAIN entries THEN Release(heap, entries[seq]) ELSE heap
           /\ entries' = MapInsert(entries, seq, h)

\* a variant that records without looking
record_always(map, seq) == TRUE

\* record_ledger_cached writes when the map has no entry for the ledger
record_needed(map, seq) == seq \notin DOMAIN map

\* find_uncached_ledgers lists a ledger with no entry or an expired one
IsUncached(seq) ==
    IF seq \in DOMAIN entries THEN partitions[entries[seq]].expires_at <= now ELSE TRUE

\* the tailer starts at some ledger and fetches the ledgers in order, each once
TailerFetch ==
    /\ writer["tailer"].pc \in {"idle", "done"}
    /\ \E seq \in FetchLedgers :
           /\ writer["tailer"].pc = "done" => seq = writer["tailer"].ledger + 1
           /\ writer' = [writer EXCEPT !["tailer"] =
                  [pc |-> "fetched", ledger |-> seq, events |-> RemoteLedger(seq)]]
    /\ UNCHANGED <<ledgers, latest_ledger, now, last, eviction, client, entries, partitions,
                   reader>>

\* a request backfills a ledger up to the latest that it found uncached
BackfillFetch(w) ==
    /\ writer[w].pc \in {"idle", "done"}
    /\ \E seq \in FetchLedgers :
           /\ seq <= latest_ledger
           /\ IsUncached(seq)
           /\ writer' = [writer EXCEPT ![w] =
                  [pc |-> "fetched", ledger |-> seq, events |-> RemoteLedger(seq)]]
    /\ UNCHANGED <<ledgers, latest_ledger, now, last, eviction, client, entries, partitions,
                   reader>>

\* insert_events: nothing to group for an empty list; else contains_key
InsertCheck(w) ==
    /\ writer[w].pc = "fetched"
    /\ writer' = [writer EXCEPT ![w].pc =
           IF writer[w].events = <<>> THEN "inserted"
           ELSE IF writer[w].ledger \in DOMAIN entries THEN "inserted" ELSE "building"]
    /\ UNCHANGED <<ledgers, latest_ledger, now, last, eviction, client, entries, partitions,
                   reader>>

\* insert_events: build the sorted partition and put it in the map
InsertInstall(w) ==
    /\ writer[w].pc = "building"
    /\ MapInstall(writer[w].ledger, BuildPartition(writer[w].ledger, writer[w].events, now))
    /\ writer' = [writer EXCEPT ![w].pc = "installed"]
    /\ UNCHANGED <<ledgers, latest_ledger, now, last, eviction, client, reader>>

\* insert_events: latest_ledger.fetch_max
InsertFetchMax(w) ==
    /\ writer[w].pc = "installed"
    /\ latest_ledger' = Max(latest_ledger, writer[w].ledger)
    /\ writer' = [writer EXCEPT ![w].pc = "inserted"]
    /\ UNCHANGED <<ledgers, now, last, eviction, client, entries, partitions, reader>>

\* record_ledger_cached: contains_key
RecordCheck(w) ==
    /\ writer[w].pc = "inserted"
    /\ writer' = [writer EXCEPT ![w].pc =
           IF record_needed(entries, writer[w].ledger) THEN "recording" ELSE "done"]
    /\ UNCHANGED <<ledgers, latest_ledger, now, last, eviction, client, entries, partitions,
                   reader>>

\* record_ledger_cached: put an empty partition in the map
RecordInstall(w) ==
    /\ writer[w].pc = "recording"
    /\ MapInstall(writer[w].ledger, NewPartition(writer[w].ledger, <<>>, now))
    /\ writer' = [writer EXCEPT ![w].pc = "recorded"]
    /\ UNCHANGED <<ledgers, latest_ledger, now, last, eviction, client, reader>>

\* record_ledger_cached: latest_ledger.fetch_max
RecordFetchMax(w) ==
    /\ writer[w].pc = "recorded"
    /\ latest_ledger' = Max(latest_ledger, writer[w].ledger)
    /\ writer' = [writer EXCEPT ![w].pc = "done"]
    /\ UNCHANGED <<ledgers, now, last, eviction, client, entries, partitions, reader>>

\* cleanup_expired: collect the expired keys
CleanupCollect ==
    /\ eviction.pc \in {"sleeping", "returned"}
    /\ eviction' = [pc |-> "collected",
                    expired |-> {seq \in DOMAIN entries :
                                     partitions[entries[seq]].expires_at <= now}]
    /\ UNCHANGED <<ledgers, latest_ledger, now, last, client, entries, partitions, writer,
                   reader>>

\* cleanup_expired: remove the collected keys; the map drops their handles
CleanupRemove ==
    /\ eviction.pc = "collected"
    /\ LET gone == eviction.expired \cap DOMAIN entries
       IN  /\ partitions' = ReleaseAll(partitions, {entries[seq] : seq \in gone})
           /\ entries' = [seq \in DOMAIN entries \ gone |-> entries[seq]]
    /\ eviction' = [pc |-> "removed", removed |-> Cardinality(eviction.expired)]
    /\ UNCHANGED <<ledgers, latest_ledger, now, last, client, writer, reader>>

\* cleanup_expired: with something removed, take the highest key left
CleanupMax ==
    /\ eviction.pc = "removed"
    /\ eviction' = IF eviction.removed > 0
                   THEN [pc |-> "scanned", removed |-> eviction.removed,
                         new_latest |-> SetMax(DOMAIN entries)]
                   ELSE [pc |-> "returned", ret |-> 0]
    /\ UNCHANGED <<ledgers, latest_ledger, now, last, client, entries, partitions, writer,
                   reader>>

\* cleanup_expired: latest_ledger.store
CleanupStore ==
    /\ eviction.pc = "scanned"
    /\ latest_ledger' = eviction.new_latest
    /\ eviction' = [pc |-> "returned", ret |-> eviction.removed]
    /\ UNCHANGED <<ledgers, now, last, client, entries, partitions, writer, reader>>

\* the contents a read through a handle can see: those of the partition while
\* it lives, and any part of them once it has been freed
Contents(heap, h) ==
    IF heap[h].strong > 0 THEN {heap[h].events}
    ELSE {SubSeq(heap[h].events, 1, n) : n \in 0..Len(heap[h].events)}

\* a variant that uses the map's reference without a handle of its own
BorrowHandle(heap, h) == heap

\* Arc::clone(p.value()): the reader's own handle on the partition
TakeHandle(heap, h) == Retain(heap, h)

\* get_event on the partition it obtained
get_event(events, internal_id) ==
    {IF bs.found THEN Some(to_event_row(events[bs.pos + 1])) ELSE None :
        bs \in binary_search_by(events, internal_id)}

\* the ledgers in the map that no task is in the middle of storing
Settled ==
    {seq \in DOMAIN entries :
         \A w \in Writers : writer[w].pc \in {"idle", "done"} \/ writer[w].ledger # seq}

\* the ledgers read by number: the one that has events
ReadLedgers == {seq \in FetchLedgers : RemoteLedger(seq) # <<>>}

\* the reads of the request handler: the newest events of one ledger, one event,
\* or the newest events with no ledger and no cursor given
ReaderCalls ==
    {[op |-> "query_single_ledger", ledger |-> seq,
      params |-> [limit |-> MaxLimit, after |-> None, before |-> None, ledger |-> Some(seq),
                  tx |-> None, filters |-> <<>>]] : seq \in ReadLedgers}
    \cup {[op |-> "get_event", ledger |-> seq, id |-> event_id(seq, "Operation", 0, 0)] :
              seq \in ReadLedgers}
    \cup {[op |-> "query_events", ledger |-> 0,
            params |-> [limit |-> MaxLimit, after |-> None, before |-> None, ledger |-> None,
                        tx |-> None, filters |-> <<>>]]}

\* a request handler calls query_events, query_single_ledger or get_event;
\* newest records the highest ledger stored when the call starts
ReaderCall ==
    /\ reader.pc = "idle"
    /\ \E call \in ReaderCalls :
           reader' = [pc |-> IF call.op = "query_events" THEN "entered" ELSE "called",
                      call |-> call, newest |-> SetMax(Settled)]
    /\ UNCHANGED <<ledgers, latest_ledger, now, last, eviction, client, entries, partitions,
                   writer>>

\* query_events without cursor and ledger: latest_ledger.load picks the ledger
ReaderPin ==
    /\ reader.pc = "entered"
    /\ LET pinned_ledger == PinnedLedger([latest_ledger |-> latest_ledger], reader.call.params)
       IN  reader' = IF IsSome(pinned_ledger)
                     THEN [reader EXCEPT !.pc = "called",
                                         !.call.ledger = Unwrap(pinned_ledger)]
                     ELSE [pc |-> "returned", call |-> reader.call, newest |-> reader.newest,
                           held |-> FALSE, result |-> EmptyResult]
    /\ UNCHANGED <<ledgers, latest_ledger, now, last, eviction, client, entries, partitions,
                   writer>>

\* self.ledgers.get(&ledger_seq): an own handle on the partition, or the empty answer
ReaderTake ==
    /\ reader.pc = "called"
    /\ IF reader.call.ledger \in DOMAIN entries
       THEN LET h == entries[reader.call.ledger]
            IN  /\ partitions' = TakeHandle(partitions, h)
                /\ reader' = [pc |-> "holding", call |-> reader.call,
                              newest |-> reader.newest, handle |-> h,
                              taken |-> partitions[h].events]
       ELSE /\ reader' = [pc |-> "returned", call |-> reader.call,
                          newest |-> reader.newest, held |-> FALSE,
                          result |-> IF reader.call.op = "get_event" THEN None
                                     ELSE EmptyResult]
            /\ UNCHANGED partitions
    /\ UNCHANGED <<ledgers, latest_ledger, now, last, eviction, client, entries, writer>>

\* the search and scan over the partition behind the handle; the handle is
\* dropped on return.  sole records that the reader's handle was the last one.
ReaderScan ==
    /\ reader.pc = "holding"
    /\ \E events \in Contents(partitions, reader.handle) :
           \E result \in IF reader.call.op = "get_event"
                          THEN get_event(events, reader.call.id)
                          ELSE {SingleLedgerWith(events, reader.call.params,
                                                 [found |-> FALSE, pos |-> 0])} :
               reader' = [pc |-> "returned", call |-> reader.call,
                          newest |-> reader.newest, held |-> TRUE,
                          taken |-> reader.taken, result |-> result,
                          sole |-> reader.call.ledger \notin DOMAIN entries]
    /\ partitions' = Release(partitions, reader.handle)
    /\ UNCHANGED <<ledgers, latest_ledger, now, last, eviction, client, entries, writer>>

\* the handler has answered
ReaderReturn ==
    /\ reader.pc = "returned"
    /\ reader' = ReaderIdle
    /\ UNCHANGED <<ledgers, latest_ledger, now, last, eviction, client, entries, partitions,
                   writer>>

\* a second passes
ConcTick ==
    /\ now < MaxTime
    /\ now' = now + 1
    /\ UNCHANGED <<ledgers, latest_ledger, last, eviction, client, entries, partitions, writer,
                   reader>>

ConcNext ==
    \/ TailerFetch
    \/ \E w \in Backfills : BackfillFetch(w)
    \/ \E w \in Writers : InsertCheck(w)
    \/ \E w \in Writers : InsertInstall(w)
    \/ \E w \in Writers : InsertFetchMax(w)
    \/ \E w \in Writers : RecordCheck(w)
    \/ \E w \in Writers : RecordInstall(w)
    \/ \E w \in Writers : RecordFetchMax(w)
    \/ CleanupCollect
    \/ CleanupRemove
    \/ CleanupMax
    \/ CleanupStore
    \/ ReaderCall
    \/ ReaderPin
    \/ ReaderTake
    \/ ReaderScan
    \/ ReaderReturn
    \/ ConcTick

ConcSpec == Init /\ [][ConcNext]_vars

(***************************************************************************)
(* A cross-ledger query over a store with many partitions, one turn of its *)
(* loop over ledger_seqs at a time.  The store holds the events of ledger  *)
(* 1 and an empty partition for every later ledger, as insert_events and   *)
(* record_ledger_cached leave it when those ledgers have no events.        *)
(***************************************************************************)

\* the most partitions in the store
MaxWide == 1001

\* the sizes of the stores a query is made on
WideSizes == (MaxWide - 2)..MaxWide

\* the store after ledgers 1..n were stored at time 0
WideStore(n) ==
    [ledgers |->
         [seq \in 1..n |->
              IF RemoteLedger(seq) = <<>>
              THEN record_ledger_cached(NewStore, seq, 0).ledgers[seq]
              ELSE insert_events(NewStore, RemoteLedger(seq), 0).ledgers[seq]],
     latest_ledger |-> n]

WideInit ==
    /\ \E n \in WideSizes : (ledgers = WideStore(n).ledgers /\ latest_ledger = WideStore(n).latest_ledger)
    /\ now = 0
    /\ last = NoCall
    /\ eviction = Sleeping
    /\ client = Idle
    /\ entries = <<>>
    /\ partitions = <<>>
    /\ writer = [w \in Writers |-> WriterIdle]
    /\ reader = ReaderIdle

\* the cursor-only queries made on the wide store: after the first id of ledger 0
WideParams ==
    {[limit |-> n, after |-> Some(event_id(0, "Operation", 0, 0)), before |-> None,
      ledger |-> None, tx |-> None, filters |-> f] :
        n \in 1..MaxLimit, f \in {<<>>, <<SystemFilter>>}}

\* query_cross_ledger_after up to its loop: the keys, the cursor's ledger
CrossAfterCall ==
    /\ reader.pc = "idle"
    /\ \E params \in WideParams :
           \E bs \in CursorSearches(store, Unwrap(params.after)) :
               reader' = [pc |-> "scanning", params |-> params, ledger_seqs |-> DOMAIN ledgers,
                          cursor_ledger |-> CursorLedger(Unwrap(params.after)), bs |-> bs,
                          scan |-> NewScan]
    /\ UNCHANGED <<ledgers, latest_ledger, now, last, eviction, client, entries, partitions,
                   writer>>

\* one turn of the loop over the sorted keys; ledger_seqs holds those still to come
CrossAfterTurn ==
    /\ reader.pc = "scanning"
    /\ reader.ledger_seqs # {}
    /\ LET seq == CHOOSE x \in reader.ledger_seqs : \A y \in reader.ledger_seqs : x <= y
           rest == reader.ledger_seqs \ {seq}
       IN  IF IsSome(reader.cursor_ledger) /\ seq < Unwrap(reader.cursor_ledger)
           THEN reader' = [reader EXCEPT !.ledger_seqs = rest]
           ELSE IF Len(reader.scan.results) >= reader.params.limit
           THEN reader' = [reader EXCEPT !.ledger_seqs = {}]
           ELSE IF seq \notin DOMAIN ledgers
           THEN reader' = [reader EXCEPT !.ledger_seqs = rest]
           ELSE LET events == ledgers[seq].events
                    start == IF Some(seq) = reader.cursor_ledger
                             THEN (IF reader.bs.found THEN reader.bs.pos + 1 ELSE reader.bs.pos)
                             ELSE 0
                IN  reader' = [reader EXCEPT
                        !.ledger_seqs = rest,
                        !.scan = Scan(Skip(events, start), reader.params.limit, reader.params,
                                      [reader.scan EXCEPT !.searched = @ + 1])]
    /\ UNCHANGED <<ledgers, latest_ledger, now, last, eviction, client, entries, partitions,
                   writer>>

\* query_cross_ledger_after after its loop
CrossAfterReturn ==
    /\ reader.pc = "scanning"
    /\ reader.ledger_seqs = {}
    /\ reader' = [pc |-> "returned", params |-> reader.params,
                  result |-> QueryResult(Reverse(reader.scan.results), reader.scan)]
    /\ UNCHANGED <<ledgers, latest_ledger, now, last, eviction, client, entries, partitions,
                   writer>>

WideNext ==
    \/ CrossAfterCall
    \/ CrossAfterTurn
    \/ CrossAfterReturn
    \/ ReaderReturn

WideSpec == WideInit /\ [][WideNext]_vars

(***************************************************************************)
(* src/api/query_parser.rs: the q= filter language, from the token list on.*)
(* A token is [kind, key, value]; an expression is [kind, key, value,      *)
(* children].  Positions and messages of errors are left out: an error is  *)
(* its kind.  The parser is [pos, depth], pos counted from 0.              *)
(***************************************************************************)
MAX_QUERY_TERMS == 20

MAX_NESTING_DEPTH == 4

MAX_FILTERS == 20

Token(kind, key, value) == [kind |-> kind, key |-> key, value |-> value]

LParen == Token("LParen", "", "")

RParen == Token("RParen", "", "")

OrToken == Token("Or", "", "")

Qualifier(key, value) == [kind |-> "Qualifier", key |-> key, value |-> value, children |-> <<>>]

AndExpr(children) == [kind |-> "And", key |-> "", value |-> "", children |-> children]

OrExpr(children) == [kind |-> "Or", key |-> "", value |-> "", children |-> children]

Ok(value) == [ok |-> TRUE, value |-> value]

\* Err(QueryParseError { kind, message, .. }); the messages of the other kinds
\* are left out
Invalid(message) == [ok |-> FALSE, kind |-> "InvalidValue", message |-> message]

Err(kind) == [ok |-> FALSE, kind |-> kind, message |-> ""]

\* Parser::new
NewParser == [pos |-> 0, depth |-> 0]

\* Parser::peek is Some(tokens[pos]) while pos is inside the tokens
AtEnd(tokens, parser) == parser.pos >= Len(tokens)

Peek(tokens, parser) == tokens[parser.pos + 1]

Advance(parser) == [parser EXCEPT !.pos = @ + 1]

\* a variant that keeps the depth on leaving a parenthesis
LeaveParenKeepDepth(parser) == parser

\* self.depth -= 1
LeaveParen(parser) == [parser EXCEPT !.depth = @ - 1]

RECURSIVE parse_or(_, _), parse_or_loop(_, _, _), parse_and(_, _), parse_and_loop(_, _, _),
          parse_atom(_, _)

\* Parser::parse_atom
parse_atom(tokens, parser) ==
    IF AtEnd(tokens, parser) THEN Err("UnexpectedToken")
    ELSE LET tok == Peek(tokens, parser)
         IN  CASE tok.kind = "LParen" ->
                      LET entered == [pos |-> parser.pos + 1, depth |-> parser.depth + 1]
                      IN  IF entered.depth > MAX_NESTING_DEPTH THEN Err("NestingTooDeep")
                          ELSE IF ~AtEnd(tokens, entered) /\ Peek(tokens, entered).kind = "RParen"
                          THEN Err("UnexpectedToken")
                          ELSE LET r == parse_or(tokens, entered)
                               IN  IF ~r.ok THEN r
                                   ELSE LET left == LeaveParen(r.value.parser)
                                        IN  IF ~AtEnd(tokens, left)
                                               /\ Peek(tokens, left).kind = "RParen"
                                            THEN Ok([expr |-> r.value.expr,
                                                     parser |-> Advance(left)])
                                            ELSE Err("UnbalancedParens")
               [] tok.kind = "Qualifier" ->
                      Ok([expr |-> Qualifier(tok.key, tok.value), parser |-> Advance(parser)])
               [] tok.kind = "Or" -> Err("UnexpectedToken")
               [] tok.kind = "RParen" -> Err("UnbalancedParens")

\* the while loop of Parser::parse_and
parse_and_loop(tokens, left, parser) ==
    IF AtEnd(tokens, parser) THEN Ok([expr |-> left, parser |-> parser])
    ELSE IF Peek(tokens, parser).kind \in {"Or", "RParen"}
    THEN Ok([expr |-> left, parser |-> parser])
    ELSE LET r == parse_atom(tokens, parser)
         IN  IF ~r.ok THEN r
             ELSE parse_and_loop(tokens,
                      IF left.kind = "And"
                      THEN AndExpr(Append(left.children, r.value.expr))
                      ELSE AndExpr(<<left, r.value.expr>>),
                      r.value.parser)

\* Parser::parse_and
parse_and(tokens, parser) ==
    LET r == parse_atom(tokens, parser)
    IN  IF ~r.ok THEN r ELSE parse_and_loop(tokens, r.value.expr, r.value.parser)

\* the while loop of Parser::parse_or
parse_or_loop(tokens, left, parser) ==
    IF AtEnd(tokens, parser) THEN Ok([expr |-> left, parser |-> parser])
    ELSE IF Peek(tokens, parser).kind # "Or" THEN Ok([expr |-> left, parser |-> parser])
    ELSE LET consumed == Advance(parser)
         IN  IF AtEnd(tokens, consumed) THEN Err("UnexpectedToken")
             ELSE LET r == parse_and(tokens, consumed)
                  IN  IF ~r.ok THEN r
                      ELSE parse_or_loop(tokens,
                               IF left.kind = "Or"
                               THEN OrExpr(Append(left.children, r.value.expr))
                               ELSE OrExpr(<<left, r.value.expr>>),
                               r.value.parser)

\* Parser::parse_or
parse_or(tokens, parser) ==
    LET r == parse_and(tokens, parser)
    IN  IF ~r.ok THEN r ELSE parse_or_loop(tokens, r.value.expr, r.value.parser)

\* a variant that keeps only the branch
ExtendWithBranchOnly(existing, branch) ==
    IF branch.kind = "And" THEN branch.children ELSE <<branch>>

\* distribute_and: a conjunction extended by one branch of an OR child
Extend(existing, branch) ==
    IF branch.kind = "And" THEN existing \o branch.children ELSE Append(existing, branch)

\* distribute_and: every conjunction times every branch, in that order
Multiply(conjunctions, or_children) ==
    [q \in 1..(Len(conjunctions) * Len(or_children)) |->
        Extend(conjunctions[((q - 1) \div Len(or_children)) + 1],
               or_children[((q - 1) % Len(or_children)) + 1])]

RECURSIVE DistributeFrom(_, _, _)
\* the loop of distribute_and over children[i..]
DistributeFrom(children, i, conjunctions) ==
    IF i > Len(children) THEN conjunctions
    ELSE LET child == children[i]
         IN  DistributeFrom(children, i + 1,
                 IF child.kind = "Or" THEN Multiply(conjunctions, child.children)
                 ELSE IF child.kind = "And"
                 THEN [k \in 1..Len(conjunctions) |-> conjunctions[k] \o child.children]
                 ELSE [k \in 1..Len(conjunctions) |-> Append(conjunctions[k], child)])

\* a conjunction of one term is the term
Conjunction(conj) == IF Len(conj) = 1 THEN conj[1] ELSE AndExpr(conj)

distribute_and(children) ==
    LET conjunctions == DistributeFrom(children, 1, <<<<>>>>)
    IN  IF Len(conjunctions) = 1 THEN Conjunction(conjunctions[1])
        ELSE OrExpr([k \in 1..Len(conjunctions) |-> Conjunction(conjunctions[k])])

RECURSIVE to_dnf(_)
to_dnf(expr) ==
    IF expr.kind = "Qualifier" THEN expr
    ELSE LET normalized == [k \in 1..Len(expr.children) |-> to_dnf(expr.children[k])]
         IN  IF expr.kind = "Or" THEN OrExpr(normalized) ELSE distribute_and(normalized)

RECURSIVE Concat(_, _)
\* the sequences seqs[i..] one after the other
Concat(seqs, i) == IF i > Len(seqs) THEN <<>> ELSE seqs[i] \o Concat(seqs, i + 1)

RECURSIVE flatten_or(_)
\* flatten_or: the AND-groups of a DNF expression, each a list of [key, value];
\* panicked when it meets unreachable!()
flatten_or(expr) ==
    IF expr.kind = "Qualifier"
    THEN [panicked |-> FALSE, groups |-> <<<<[key |-> expr.key, value |-> expr.value]>>>>]
    ELSE IF expr.kind = "And"
    THEN IF \A k \in 1..Len(expr.children) : expr.children[k].kind = "Qualifier"
         THEN [panicked |-> FALSE,
               groups |-> <<[k \in 1..Len(expr.children) |->
                                [key |-> expr.children[k].key,
                                 value |-> expr.children[k].value]]>>]
         ELSE [panicked |-> TRUE, groups |-> <<>>]
    ELSE LET parts == [k \in 1..Len(expr.children) |-> flatten_or(expr.children[k])]
         IN  [panicked |-> \E k \in 1..Len(parts) : parts[k].panicked,
              groups |-> Concat([k \in 1..Len(parts) |-> parts[k].groups], 1)]

\* serde_json::from_str on the values of the model: "transfer" stands for the
\* JSON text of that value, and "nojson" is no JSON
JsonTexts == {"transfer", "mint", "GABC"}

from_json(text) == IF text \in JsonTexts THEN Some(text) ELSE None

\* str::parse::<u32>() on the ledger values of the model
LedgerTexts == [t \in {"1", "01", "2"} |-> IF t = "2" THEN 2 ELSE 1]

parse_u32(text) == IF text \in DOMAIN LedgerTexts THEN Some(LedgerTexts[text]) ELSE None

\* str::parse::<EventType>()
parse_event_type(text) ==
    IF text \in {"contract", "system", "diagnostic"} THEN Some(text) ELSE None

\* topic_key[5..].parse()
TopicIndex(key) ==
    CASE key = "topic0" -> 1 [] key = "topic1" -> 2 [] key = "topic2" -> 3 [] key = "topic3" -> 4

\* a variant that keeps the first value whatever the second is
SameValueAlways(existing, value) == TRUE

\* *existing == value
SameValue(existing, value) == existing = value

\* and_group_to_filter: the locals before the loop
NewGroup ==
    [event_type |-> None, contract_id |-> None, ledger |-> None, tx |-> None,
     topics |-> <<None, None, None, None>>, any_topics |-> <<>>]

\* if let Some(existing) = slot: collapse on the same value, else conflict; else set
SetOnce(acc, field, value, conflict) ==
    IF IsSome(acc[field])
    THEN IF SameValue(Unwrap(acc[field]), value) THEN Ok(acc) ELSE Err(conflict)
    ELSE Ok([acc EXCEPT ![field] = Some(value)])

\* and_group_to_filter: one turn of the loop over the group
GroupTurn(acc, key, value) ==
    CASE key = "topic" ->
             IF from_json(value) = None THEN Invalid("invalid JSON value")
             ELSE IF \E k \in 1..Len(acc.any_topics) : acc.any_topics[k] = value THEN Ok(acc)
             ELSE Ok([acc EXCEPT !.any_topics = Append(@, value)])
      [] key = "type" ->
             IF parse_event_type(value) = None THEN Invalid("invalid value for key 'type'")
             ELSE SetOnce(acc, "event_type", value, "ConflictingQualifiers")
      [] key = "contract" -> SetOnce(acc, "contract_id", value, "ConflictingQualifiers")
      [] key = "ledger" ->
             IF parse_u32(value) = None THEN Invalid("invalid value for key 'ledger'")
             ELSE SetOnce(acc, "ledger", Unwrap(parse_u32(value)), "ConflictingQualifiers")
      [] key = "tx" -> SetOnce(acc, "tx", value, "ConflictingQualifiers")
      [] key \in {"topic0", "topic1", "topic2", "topic3"} ->
             IF from_json(value) = None THEN Invalid("invalid JSON value")
             ELSE LET idx == TopicIndex(key)
                  IN  IF IsSome(acc.topics[idx])
                      THEN IF SameValue(Unwrap(acc.topics[idx]), value) THEN Ok(acc)
                           ELSE Err("DuplicateTopicPosition")
                      ELSE Ok([acc EXCEPT !.topics[idx] = Some(value)])

RECURSIVE GroupFrom(_, _, _)
\* the loop of and_group_to_filter over group[i..]
GroupFrom(group, i, acc) ==
    IF i > Len(group) THEN Ok(acc)
    ELSE LET r == GroupTurn(acc, group[i].key, group[i].value)
         IN  IF ~r.ok THEN r ELSE GroupFrom(group, i + 1, r.value)

\* topics_vec: the positions up to the last one set, null where none is set
TopicsVec(topics) ==
    LET set == {k \in 1..Len(topics) : IsSome(topics[k])}
    IN  IF set = {} THEN None
        ELSE Some([k \in 1..SetMax(set) |->
                      IF IsSome(topics[k]) THEN Unwrap(from_json(Unwrap(topics[k])))
                      ELSE JsonNull])

\* a variant that lets tx stand alone
TxAlone(tx, ledger) == FALSE

\* tx requires ledger: if let Some(..) = &tx { if ledger.is_none() {
TxWithoutLedger(tx, ledger) == IsSome(tx) /\ ledger = None

and_group_to_filter(group) ==
    LET r == GroupFrom(group, 1, NewGroup)
    IN  IF ~r.ok THEN r
        ELSE IF TxWithoutLedger(r.value.tx, r.value.ledger)
        THEN Invalid("ledger is required when tx is provided")
        ELSE Ok([event_type  |-> r.value.event_type,
                 contract_id |-> r.value.contract_id,
                 topics      |-> TopicsVec(r.value.topics),
                 any_topics  |-> IF r.value.any_topics = <<>> THEN None
                                 ELSE Some([k \in 1..Len(r.value.any_topics) |->
                                               Unwrap(from_json(r.value.any_topics[k]))]),
                 ledger      |-> r.value.ledger,
                 tx          |-> r.value.tx])

RECURSIVE FiltersFrom(_, _, _)
\* for group in and_groups { filters.push(and_group_to_filter(group)?) }
FiltersFrom(and_groups, i, filters) ==
    IF i > Len(and_groups) THEN Ok(filters)
    ELSE LET r == and_group_to_filter(and_groups[i])
         IN  IF ~r.ok THEN r ELSE FiltersFrom(and_groups, i + 1, Append(filters, r.value))

\* what parse_query does with a query: Ok(filters), Err(kind) or a panic
Returned(r) ==
    [status |-> IF r.ok THEN "Ok" ELSE "Err",
     kind |-> IF r.ok THEN "" ELSE r.kind,
     message |-> IF r.ok THEN "" ELSE r.message,
     filters |-> IF r.ok THEN r.value ELSE <<>>]

Panicked == [status |-> "Panic", kind |-> "", message |-> "", filters |-> <<>>]

\* parse_query on the tokens of a query within MAX_QUERY_LENGTH
parse_query(tokens) ==
    IF tokens = <<>> THEN Returned(Err("EmptyQuery"))
    ELSE IF Cardinality({k \in 1..Len(tokens) : tokens[k].kind = "Qualifier"}) > MAX_QUERY_TERMS
    THEN Returned(Err("TooManyTerms"))
    ELSE LET r == parse_or(tokens, NewParser)
         IN  IF ~r.ok THEN Returned(r)
             ELSE IF r.value.parser.pos < Len(tokens) THEN Returned(Err("UnexpectedToken"))
             ELSE LET flat == flatten_or(to_dnf(r.value.expr))
                  IN  IF flat.panicked THEN Panicked
                      ELSE IF Len(flat.groups) > MAX_FILTERS
                      THEN Returned(Err("TooManyFilters"))
                      ELSE Returned(FiltersFrom(flat.groups, 1, <<>>))

\* the internal ids of the rows of a response
RowIds(rows) == [i \in 1..Len(rows) |-> rows[i].internal_id]

EventIds(events) == [i \in 1..Len(events) |-> events[i].id]

Count(seq, x) == Cardinality({i \in 1..Len(seq) : seq[i] = x})

Take(seq, n) == SubSeq(seq, 1, IF n < Len(seq) THEN n ELSE Len(seq))

RECURSIVE MatchingFrom(_, _, _)
\* the ids of the cached events of the ledgers seqs[k..] that match params, each
\* partition read from its end
MatchingFrom(seqs, k, params) ==
    IF k > Len(seqs) THEN <<>>
    ELSE LET Matches(e) == event_matches(e, params)
         IN  EventIds(SelectSeq(Reverse(ledgers[seqs[k]].events), Matches))
                 \o MatchingFrom(seqs, k + 1, params)

\* the ids of all cached events that match params, newest first
MatchingDescending(params) == MatchingFrom(SortedSeq(DOMAIN ledgers, FALSE), 1, params)

\* the partitions a query scans
ScanLedgers(params) ==
    LET pinned_ledger == PinnedLedger(store, params)
    IN  IF IsSome(pinned_ledger) THEN {Unwrap(pinned_ledger)} \cap DOMAIN ledgers
        ELSE IF IsSome(params.after) \/ IsSome(params.before) THEN DOMAIN ledgers
        ELSE {}

\* id lies on the side of the cursor the query asks for
BeyondCursor(id, params) ==
    IF IsSome(params.after) THEN StrLess(Unwrap(params.after), id)
    ELSE IF IsSome(params.before) THEN StrLess(id, Unwrap(params.before))
    ELSE TRUE

\* C8: every partition is strictly increasing by internal id, whatever event
\* list insert_events was given
PartitionsStrictlyIncreasing ==
    \A L \in DOMAIN ledgers :
        \A i, j \in 1..Len(ledgers[L].events) :
            i < j => StrLess(ledgers[L].events[i].id, ledgers[L].events[j].id)

\* C1: a query with after = c returns no event with id <= c, and a query with
\* before = c returns no event with id >= c
CursorExclusive ==
    IsQuery =>
        \A i \in 1..Len(last.result.data) :
            /\ IsSome(last.params.after) =>
                   StrLess(Unwrap(last.params.after), last.result.data[i].internal_id)
            /\ (last.params.after = None /\ IsSome(last.params.before)) =>
                   StrLess(last.result.data[i].internal_id, Unwrap(last.params.before))

\* C1 holds as long as no partition holds an id twice
CursorExclusiveOnStrictPartitions == PartitionsStrictlyIncreasing => CursorExclusive

\* C2: the data of a response is strictly descending by internal id
DataStrictlyDescending ==
    IsQuery =>
        \A i \in 1..(Len(last.result.data) - 1) :
            StrLess(last.result.data[i + 1].internal_id, last.result.data[i].internal_id)

\* C2 holds as long as no partition holds an id twice
DataStrictlyDescendingOnStrictPartitions ==
    PartitionsStrictlyIncreasing => DataStrictlyDescending

\* C3: the pages a client has collected when a response comes without next are
\* all cached events that match the filters, newest first, each once
PaginationExhaustive ==
    client.phase = "done" =>
        client.collected =
            MatchingDescending([tx |-> None, filters |-> client.filters])

\* C3 holds on a store whose latest ledger holds an event and whose partitions
\* hold no id twice
PaginationExhaustiveFromNonEmptyLatest ==
    (/\ PartitionsStrictlyIncreasing
     /\ latest_ledger \in DOMAIN ledgers
     /\ latest_ledger > 0
     /\ ledgers[latest_ledger].events # <<>>) => PaginationExhaustive

\* C4: a query with no cursor and no ledger returns the min(limit, total) newest
\* matching events of all cached partitions, newest first
NoCursorNewestAcrossPartitions ==
    (IsQuery /\ last.params.after = None /\ last.params.before = None
        /\ last.params.ledger = None) =>
        RowIds(last.result.data) = Take(MatchingDescending(last.params), last.params.limit)

\* C5: a response holds at most limit events, and fewer than limit only when
\* every event of the scan range (the scanned partitions, beyond the cursor) has
\* been examined
LimitAndScanRange ==
    IsQuery =>
        /\ Len(last.result.data) <= last.params.limit
        /\ Len(last.result.data) < last.params.limit =>
               \A L \in ScanLedgers(last.params) :
                   \A i \in 1..Len(ledgers[L].events) :
                       LET id == ledgers[L].events[i].id
                       IN  BeyondCursor(id, last.params) =>
                               Count(last.result.examined, id)
                                   >= Count(EventIds(ledgers[L].events), id)

\* a cross-ledger query came back short of its limit, having examined an event
\* it did not return
LimitAndScanRangeWitness ==
    /\ IsQuery
    /\ last.params.ledger = None
    /\ IsSome(last.params.before)
    /\ Len(last.result.data) > 0
    /\ Len(last.result.data) < last.params.limit
    /\ Len(last.result.examined) > Len(last.result.data)

\* to_external_id on the internal ids of the events of the pool, computed once
ExternalIdOf == [id \in Cursors |-> to_external_id(id)]

\* C6: next is the external id of the last event the scan examined, matching or
\* not, and it is absent iff the scan examined no event
NextIsLastExamined ==
    IsQuery =>
        LET examined == last.result.examined
        IN  IF examined = <<>> THEN last.result.next = None
            ELSE last.result.next = ExternalIdOf[examined[Len(examined)]]

\* the last event a scan examined did not match, and next names it
NextIsLastExaminedWitness ==
    /\ IsQuery
    /\ last.result.data # <<>>
    /\ last.result.examined # <<>>
    /\ \A i \in 1..Len(last.result.data) :
           last.result.data[i].internal_id
               # last.result.examined[Len(last.result.examined)]
    /\ IsSome(last.result.next)

\* C7: insert_events leaves the partition of every ledger it finds cached as it
\* was; given events of cached ledgers only it leaves the whole store as it was;
\* it returns Ok; and the same call made again, then or later, changes nothing
InsertCachedLedgerNoOp ==
    last.op = "insert_events" =>
        LET cached == DOMAIN last.before.ledgers
        IN  /\ last.ret = "Ok"
            /\ \A L \in cached : L \in DOMAIN ledgers /\ ledgers[L] = last.before.ledgers[L]
            /\ InputLedgers(last.events) \subseteq cached => store = last.before
            /\ \A t \in now..MaxTime : insert_events(store, last.events, t) = store

\* insert_events was given other events for a cached ledger, at a later time
\* than the partition was made
InsertCachedLedgerNoOpWitness ==
    /\ last.op = "insert_events"
    /\ \E L \in InputLedgers(last.events) \cap DOMAIN last.before.ledgers :
           /\ ledgers[L].events
                  # sort_by_id([i \in 1..Len(ByLedger(last.events, L)) |->
                                   StoredEvent(ByLedger(last.events, L)[i])])
           /\ ledgers[L].expires_at # now + CacheTtlSeconds
    /\ \E L \in InputLedgers(last.events) : L \notin DOMAIN last.before.ledgers

\* C9: latest_ledger > 0 iff the map holds a partition
LatestPositiveIffCached == (latest_ledger > 0) <=> (DOMAIN ledgers # {})

\* C10: when cleanup_expired returns, no partition with expires_at <= now is
\* left, and latest_ledger is the greatest key left, or 0 with none left
CleanupLeavesNoExpired ==
    eviction.pc = "returned" =>
        /\ \A L \in DOMAIN ledgers : ledgers[L].expires_at > eviction.now
        /\ latest_ledger = SetMax(DOMAIN ledgers)

\* C10 holds of a cleanup_expired that removed a partition with no insert beside it
CleanupLeavesNoExpiredAlone ==
    (eviction.pc = "returned" /\ eviction.alone /\ eviction.ret > 0) => CleanupLeavesNoExpired

\* a cleanup_expired that no insert ran beside removed the latest ledger and left
\* an older one
CleanupAloneReached ==
    /\ eviction.pc = "returned"
    /\ eviction.alone
    /\ eviction.ret > 0
    /\ latest_ledger > 0

\* the partition the map holds for seq has exactly the events fetched for seq,
\* each once, in strictly increasing id order
HoldsFetched(seq) ==
    LET held == partitions[entries[seq]].events
        fetched == RemoteLedger(seq)
    IN  /\ Len(held) = Len(fetched)
        /\ {held[i] : i \in 1..Len(held)} = {StoredEvent(fetched[i]) : i \in 1..Len(fetched)}
        /\ \A i \in 1..Len(held) : \A j \in 1..Len(held) :
               i < j => StrLess(held[i].id, held[j].id)

\* C11: while only the tailer and the backfills have touched the store, at every
\* point of every interleaving of their insert_events and record_ledger_cached
\* steps the partition of each ledger in the map holds exactly the events
\* fetched for it, each once and sorted by id; none is lost, doubled or
\* replaced by an empty partition
ConcurrentStoreKeepsFetched ==
    eviction = Sleeping => \A seq \in DOMAIN entries : HoldsFetched(seq)

\* two requests both fetched ledger 1, both built its partition and both put it
\* in the map, and both have returned from record_ledger_cached
ConcurrentStoreKeepsFetchedWitness ==
    /\ eviction = Sleeping
    /\ \A w \in Backfills : writer[w].pc = "done" /\ writer[w].ledger = 1
    /\ Cardinality({h \in DOMAIN partitions :
                        partitions[h].ledger = 1 /\ partitions[h].events # <<>>}) = 2
    /\ 1 \in DOMAIN entries

HandleReadsWholePartition ==
    /\ reader.pc = "holding" =>
           /\ partitions[reader.handle].strong > 0
           /\ partitions[reader.handle].events = reader.taken
    /\ (reader.pc = "returned" /\ reader.held) =>
           IF reader.call.op = "get_event"
           THEN IF \E i \in 1..Len(reader.taken) : reader.taken[i].id = reader.call.id
                THEN /\ IsSome(reader.result)
                     /\ Unwrap(reader.result).internal_id = reader.call.id
                ELSE reader.result = None
           ELSE RowIds(reader.result.data)
                    = Take(Reverse(EventIds(reader.taken)), reader.call.params.limit)

\* a read returned events of a partition that cleanup had removed from the map
\* while the read held its handle
HandleReadsWholePartitionWitness ==
    /\ reader.pc = "returned" /\ reader.held /\ reader.sole
    /\ reader.taken # <<>>
    /\ reader.call.op = "get_event" => IsSome(reader.result)

\* the query without cursor and ledger in hand started when ledger newest was
\* stored, and newest is still in the map and the highest ledger there
NewestStillThere ==
    /\ reader.pc \in {"entered", "called"}
    /\ reader.call.op = "query_events"
    /\ reader.newest > 0
    /\ reader.newest \in DOMAIN entries
    /\ reader.newest = SetMax(DOMAIN entries)

\* C14: a query without cursor and ledger that started after the highest ledger
\* L was stored, and that picks its partition while L is in the map and the
\* highest there, takes its handle on the partition of L; it does not return
\* without one and does not take another ledger's
QueryObservesNewest ==
    [][(NewestStillThere /\ reader'.pc \in {"holding", "returned"})
           => (reader'.pc = "holding" /\ reader'.handle = entries[reader.newest])]_vars

\* C14 holds as long as cleanup_expired has not run
QueryObservesNewestBeforeCleanup ==
    [][(eviction = Sleeping /\ NewestStillThere /\ reader'.pc \in {"holding", "returned"})
           => (reader'.pc = "holding" /\ reader'.handle = entries[reader.newest])]_vars

\* C15: a cross-ledger query that has returned has taken a handle on at most
\* 1000 partitions
SearchesAtMostThousandLedgers ==
    reader.pc = "returned" => reader.result.searched <= 1000

\* C16: a query pinned to ledger L returns only events of L, and its next, if
\* any, is the id of an event of L's partition; with no partition for L it
\* returns an empty page without next, whatever the cursor
PinnedQueryStaysInLedger ==
    (IsQuery /\ IsSome(last.params.ledger)) =>
        LET L == Unwrap(last.params.ledger)
        IN  /\ \A i \in 1..Len(last.result.data) : last.result.data[i].ledger_sequence = L
            /\ IsSome(last.result.next) =>
                   /\ L \in DOMAIN ledgers
                   /\ \E i \in 1..Len(ledgers[L].events) :
                          ledgers[L].events[i].external_id = Unwrap(last.result.next)
            /\ L \notin DOMAIN ledgers => (last.result.data = <<>> /\ last.result.next = None)

\* a query pinned to a ledger, with a cursor in another ledger that is in the
\* store too, returned events and a next
PinnedQueryStaysInLedgerWitness ==
    /\ IsQuery /\ IsSome(last.params.ledger)
    /\ last.result.data # <<>> /\ IsSome(last.result.next)
    /\ \E c \in {last.params.after, last.params.before} :
           /\ IsSome(c)
           /\ CursorLedger(Unwrap(c)) # last.params.ledger
           /\ Unwrap(CursorLedger(Unwrap(c))) \in DOMAIN ledgers

\* a query pinned to a ledger without partition, with a cursor, in a store that
\* holds events: it returned the empty page
PinnedQueryMissingLedgerReached ==
    /\ IsQuery /\ IsSome(last.params.ledger)
    /\ Unwrap(last.params.ledger) \notin DOMAIN ledgers
    /\ DOMAIN ledgers # {}
    /\ last.params.after # None


(***************************************************************************)
(* src/api/query_parser.rs: the queries of the model.  A query is written  *)
(* as its syntax tree and handed to parse_query as the tokens tokenize()   *)
(* makes of its text; a Group is a pair of parentheses around a query.     *)
(***************************************************************************)
GroupExpr(child) == [kind |-> "Group", key |-> "", value |-> "", children |-> <<child>>]

RECURSIVE Render(_)
\* the tokens of a query: juxtaposition for AND, OR between the branches,
\* parentheses where the precedence needs them
Render(q) ==
    LET Inner(child, kinds) ==
            IF child.kind \in kinds THEN <<LParen>> \o Render(child) \o <<RParen>>
            ELSE Render(child)
    IN  CASE q.kind = "Qualifier" -> <<Token("Qualifier", q.key, q.value)>>
          [] q.kind = "Group" -> <<LParen>> \o Render(q.children[1]) \o <<RParen>>
          [] q.kind = "And" ->
                 Concat([k \in 1..Len(q.children) |-> Inner(q.children[k], {"And", "Or"})], 1)
          [] q.kind = "Or" ->
                 Concat([k \in 1..Len(q.children) |->
                            (IF k = 1 THEN <<>> ELSE <<OrToken>>)
                                \o Inner(q.children[k], {"Or"})], 1)

\* the qualifiers of the queries that are matched against events
MatchAtoms ==
    {Qualifier("type", "contract"), Qualifier("type", "system"),
     Qualifier("topic0", "transfer"), Qualifier("contract", "C1"),
     Qualifier("topic", "mint")}

\* x y and x OR y
Both(S, T) == {AndExpr(<<x, y>>) : x \in S, y \in T} \cup {OrExpr(<<x, y>>) : x \in S, y \in T}

\* the queries of one or two qualifiers
Pairs == MatchAtoms \cup {q \in Both(MatchAtoms, MatchAtoms) : q.children[1] # q.children[2]}

\* the queries of up to four qualifiers, and x (y OR (z OR w)): an OR inside
\* an OR inside an AND
SmallQueries ==
    Pairs \cup Both(Pairs, Pairs)
          \cup {AndExpr(<<x, OrExpr(<<y, z>>)>>) :
                    x \in MatchAtoms, y \in MatchAtoms,
                    z \in {q \in Pairs : q.kind = "Or"}}

\* the values of the any-topic qualifiers of a product
ProductValues == <<"transfer", "mint", "GABC">>

\* v1 OR v2 OR ... of n qualifiers
Alternatives(n) ==
    IF n = 1 THEN Qualifier("topic", ProductValues[1])
    ELSE OrExpr([k \in 1..n |-> Qualifier("topic", ProductValues[((k - 1) % 3) + 1])])

MaxBranches == 7

MaxTerms == 21

\* (a1 OR ..) (b1 OR ..) (c1 OR ..): the products of up to three alternatives,
\* and the alternatives of up to MaxTerms qualifiers
ProductQueries ==
    {Alternatives(n) : n \in 1..MaxTerms}
        \cup {AndExpr(<<Alternatives(n), Alternatives(m)>>) :
                  n \in 1..MaxBranches, m \in 1..MaxBranches}
        \cup {AndExpr(<<Alternatives(n), Alternatives(m), Alternatives(l)>>) :
                  n \in 1..MaxBranches, m \in 1..MaxBranches, l \in 1..MaxBranches}

MaxNest == 6

RECURSIVE Nest(_, _)
\* k pairs of parentheses around q
Nest(k, q) == IF k = 0 THEN q ELSE GroupExpr(Nest(k - 1, q))

\* parentheses around one qualifier, around two siblings, around a query that
\* holds parentheses, and rows of sibling groups
NestedQueries ==
    LET a == Qualifier("type", "contract")
        c == Qualifier("topic0", "transfer")
    IN  {Nest(k, a) : k \in 0..MaxNest}
            \cup Both({Nest(k, a) : k \in 0..MaxNest}, {Nest(k, c) : k \in 0..MaxNest})
            \cup {Nest(k, AndExpr(<<a, Nest(j, c)>>)) : k \in 0..MaxNest, j \in 0..MaxNest}
            \cup {AndExpr([i \in 1..m |-> Nest(k, a)]) : m \in 2..MaxNest, k \in 1..2}
            \cup {OrExpr([i \in 1..m |-> Nest(k, a)]) : m \in 2..MaxNest, k \in 1..2}

\* the qualifiers of the single-valued keys
SingleAtoms ==
    {Qualifier("type", "contract"), Qualifier("type", "system"),
     Qualifier("contract", "C1"), Qualifier("contract", "C2"),
     Qualifier("ledger", "1"), Qualifier("ledger", "01"), Qualifier("ledger", "2"),
     Qualifier("tx", "T1"), Qualifier("tx", "T2")}

MaxRepeat == 3

\* the conjunctions of up to MaxRepeat single-valued qualifiers
FlatQueries ==
    SingleAtoms
        \cup {AndExpr(<<x, y>>) : x \in SingleAtoms, y \in SingleAtoms}
        \cup {AndExpr(<<x, y, z>>) : x \in SingleAtoms, y \in SingleAtoms, z \in SingleAtoms}

\* token sequences that are no query
BrokenTokens ==
    LET a == Token("Qualifier", "type", "contract")
    IN  {<<>>, <<OrToken>>, <<a, OrToken>>, <<LParen, RParen>>, <<LParen, a>>, <<a, RParen>>,
         <<a, OrToken, OrToken, a>>, <<LParen, a, RParen, RParen>>,
         <<Token("Qualifier", "type", "nothing")>>, <<Token("Qualifier", "topic0", "nojson")>>,
         <<Token("Qualifier", "topic0", "transfer"), Token("Qualifier", "topic0", "mint")>>,
         <<Token("Qualifier", "ledger", "x")>>}

\* the qualifiers of the queries about tx and ledger
TxAtoms ==
    {Qualifier("ledger", "1"), Qualifier("tx", "T1"), Qualifier("type", "contract"),
     Qualifier("type", "nothing")}

\* the queries of up to four of them
TxQueries ==
    LET pairs == TxAtoms \cup Both(TxAtoms, TxAtoms)
    IN  Both(pairs, pairs)

Queries ==
    SmallQueries \cup ProductQueries \cup NestedQueries \cup FlatQueries \cup TxQueries

\* a handler calls parse_query on the q= of a request; parsed and depth keep
\* what Parser::parse_or returned and the depth counter it left
ParseQueryCall ==
    /\ last = NoCall
    /\ \/ \E query \in Queries :
              LET tokens == Render(query)
                  parsed == parse_or(tokens, NewParser)
              IN  last' = [op |-> "parse_query", written |-> TRUE, query |-> query,
                           tokens |-> tokens,
                           parsed |-> parsed.ok,
                           depth |-> IF parsed.ok THEN parsed.value.parser.depth ELSE 0,
                           ret |-> parse_query(tokens)]
       \/ \E tokens \in BrokenTokens :
              last' = [op |-> "parse_query", written |-> FALSE,
                       query |-> Qualifier("", ""), tokens |-> tokens,
                       parsed |-> parse_or(tokens, NewParser).ok, depth |-> 0,
                       ret |-> parse_query(tokens)]
    /\ UNCHANGED <<ledgers, latest_ledger, now, eviction, client>>
    /\ UNCHANGED concVars

ParseNext == ParseQueryCall \/ Return

ParseSpec == Init /\ [][ParseNext]_vars


(***************************************************************************)
(* Properties of parse_query                                               *)
(***************************************************************************)
\* the events a query is matched against
ProbeEvents ==
    [contract_id : {None, Some("C1")}, event_type : {0, 1},
     topics : {<<>>, <<"transfer">>, <<"mint", "transfer">>, <<"transfer", "mint">>}]

\* the keys whose meaning StoredEvent::matches_filter gives
MatchKeys == {"type", "contract", "topic", "topic0", "topic1", "topic2", "topic3"}

RECURSIVE Keys(_)
\* the keys of the qualifiers of a query
Keys(q) ==
    IF q.kind = "Qualifier" THEN {q.key}
    ELSE UNION {Keys(q.children[k]) : k \in 1..Len(q.children)}

\* an event satisfies key:value
Holds(key, value, e) ==
    CASE key = "type" -> e.event_type = (IF value = "contract" THEN 0
                                         ELSE IF value = "system" THEN 1 ELSE 2)
      [] key = "contract" -> e.contract_id = Some(value)
      [] key = "topic" -> \E i \in 1..Len(e.topics) : e.topics[i] = value
      [] key \in {"topic0", "topic1", "topic2", "topic3"} ->
             Len(e.topics) >= TopicIndex(key) /\ e.topics[TopicIndex(key)] = value

RECURSIVE Eval(_, _)
\* an event satisfies the boolean expression of a query
Eval(q, e) ==
    CASE q.kind = "Qualifier" -> Holds(q.key, q.value, e)
      [] q.kind = "Group" -> Eval(q.children[1], e)
      [] q.kind = "And" -> \A k \in 1..Len(q.children) : Eval(q.children[k], e)
      [] q.kind = "Or" -> \E k \in 1..Len(q.children) : Eval(q.children[k], e)

\* every conjunction of A followed by every conjunction of B
Product(A, B) ==
    [q \in 1..(Len(A) * Len(B)) |->
        A[((q - 1) \div Len(B)) + 1] \o B[((q - 1) % Len(B)) + 1]]

RECURSIVE Conjunctions(_), ProductFrom(_, _)
\* the conjunctions of children[i..] distributed over each other
ProductFrom(children, i) ==
    IF i > Len(children) THEN <<<<>>>>
    ELSE Product(Conjunctions(children[i]), ProductFrom(children, i + 1))

\* the conjunctions a query stands for when AND is distributed over OR
Conjunctions(q) ==
    CASE q.kind = "Qualifier" -> <<<<[key |-> q.key, value |-> q.value]>>>>
      [] q.kind = "Group" -> Conjunctions(q.children[1])
      [] q.kind = "And" -> ProductFrom(q.children, 1)
      [] q.kind = "Or" -> Concat([k \in 1..Len(q.children) |-> Conjunctions(q.children[k])], 1)

\* parse_query accepted the query of the model that was written as a tree
Accepted == last.op = "parse_query" /\ last.written /\ last.ret.status = "Ok"

TermCount(tokens) == Cardinality({k \in 1..Len(tokens) : tokens[k].kind = "Qualifier"})

\* the greatest number of parentheses open at a position of a token sequence
MaxOpen(tokens) ==
    LET Open(k) == Cardinality({i \in 1..k : tokens[i].kind = "LParen"})
                       - Cardinality({i \in 1..k : tokens[i].kind = "RParen"})
    IN  SetMax({Open(k) : k \in 0..Len(tokens)})

\* parse_query was called on a query within the term and nesting caps
CalledWithinCaps ==
    /\ last.op = "parse_query" /\ last.written
    /\ TermCount(last.tokens) <= MAX_QUERY_TERMS
    /\ MaxOpen(last.tokens) <= MAX_NESTING_DEPTH

\* the DNF expansion of the query yields n conjunctions: Ok with n filters when
\* n <= 20 and every conjunction is a filter, TooManyFilters when n > 20
CountHonoured ==
    LET conjunctions == Conjunctions(last.query)
        n == Len(conjunctions)
    IN  /\ (n <= MAX_FILTERS /\ \A k \in 1..n : and_group_to_filter(conjunctions[k]).ok)
               => (last.ret.status = "Ok" /\ Len(last.ret.filters) = n)
        /\ n > MAX_FILTERS
               => (last.ret.status = "Err" /\ last.ret.kind = "TooManyFilters")

\* C18: for every query within the length, term and nesting caps, parse_query
\* returns Ok with exactly n filters when the DNF expansion of the query yields
\* n <= 20 valid conjunctions, and TooManyFilters when it yields more than 20
FilterCountFollowsDnf == CalledWithinCaps => CountHonoured

\* the same for the calls that return: the count is honoured by every call
\* that does not panic
FilterCountFollowsDnfOrPanics ==
    (CalledWithinCaps /\ last.ret.status # "Panic") => CountHonoured

\* a call on x (y OR (z OR w)), which expands to three valid conjunctions, panicked
PanicOnNestedOrReached ==
    /\ CalledWithinCaps
    /\ last.ret.status = "Panic"
    /\ Len(Conjunctions(last.query)) = 3
    /\ \A k \in 1..3 : and_group_to_filter(Conjunctions(last.query)[k]).ok

\* products of exactly 20 and of 21 conjunctions were parsed
TwentyFiltersReached ==
    /\ CalledWithinCaps /\ last.ret.status = "Ok" /\ Len(last.ret.filters) = MAX_FILTERS
    /\ last.query.kind = "And"

TwentyOneFiltersReached ==
    /\ CalledWithinCaps /\ last.ret.kind = "TooManyFilters"
    /\ Len(Conjunctions(last.query)) = MAX_FILTERS + 1


\* parse_query was called on a query, written with balanced parentheses, of at
\* most MAX_QUERY_TERMS qualifiers
CalledWithinTerms ==
    last.op = "parse_query" /\ last.written /\ TermCount(last.tokens) <= MAX_QUERY_TERMS

\* C19: a query whose qualifiers are enclosed by at most 4 open parentheses is
\* accepted (the parser returns its expression, never NestingTooDeep, and the
\* nested queries of the model come back Ok), a query with a position enclosed
\* by 5 or more returns NestingTooDeep, and the depth counter is back at the
\* number of open parentheses, 0, when the parser is done, so that sibling
\* groups do not add up
NestingCapHonoured ==
    CalledWithinTerms =>
        /\ MaxOpen(last.tokens) <= MAX_NESTING_DEPTH =>
               /\ last.parsed
               /\ last.ret.kind # "NestingTooDeep"
               /\ last.query \in NestedQueries => last.ret.status = "Ok"
        /\ MaxOpen(last.tokens) > MAX_NESTING_DEPTH =>
               (last.ret.status = "Err" /\ last.ret.kind = "NestingTooDeep")
        /\ last.parsed => last.depth = 0

\* a row of six sibling groups, each two parentheses deep, was accepted
NestingCapHonouredWitness ==
    /\ CalledWithinTerms
    /\ last.query = AndExpr([i \in 1..MaxNest |-> Nest(2, Qualifier("type", "contract"))])
    /\ MaxOpen(last.tokens) = 2
    /\ last.ret.status = "Ok" /\ Len(last.ret.filters) = 1

\* ((((type:contract)))) was accepted and (((((type:contract))))) was refused
FourDeepAccepted ==
    /\ CalledWithinTerms
    /\ last.query = Nest(MAX_NESTING_DEPTH, Qualifier("type", "contract"))
    /\ last.ret.status = "Ok"

FiveDeepRefused ==
    /\ CalledWithinTerms
    /\ last.query = Nest(MAX_NESTING_DEPTH + 1, Qualifier("type", "contract"))
    /\ last.ret.kind = "NestingTooDeep"


\* the query is one conjunction of single-valued qualifiers
IsFlat(q) ==
    \/ q \in SingleAtoms
    \/ q.kind = "And" /\ \A k \in 1..Len(q.children) : q.children[k] \in SingleAtoms

\* the qualifiers of a flat query, in order
Terms(q) == IF q.kind = "And" THEN q.children ELSE <<q>>

\* the value a qualifier gives its field: the number for ledger, the text else
FieldValue(t) == IF t.key = "ledger" THEN LedgerTexts[t.value] ELSE t.value

\* two qualifiers of one key with different values
Conflicting(terms) ==
    \E i, j \in 1..Len(terms) :
        terms[i].key = terms[j].key /\ FieldValue(terms[i]) # FieldValue(terms[j])

RECURSIVE WithoutRepetition(_, _)
\* terms[i..] without the qualifiers that repeat an earlier key
WithoutRepetition(terms, i) ==
    IF i > Len(terms) THEN <<>>
    ELSE IF \E j \in 1..(i - 1) : terms[j].key = terms[i].key
    THEN WithoutRepetition(terms, i + 1)
    ELSE <<terms[i]>> \o WithoutRepetition(terms, i + 1)

\* the query of the qualifiers left
Rebuilt(terms) == IF Len(terms) = 1 THEN terms[1] ELSE AndExpr(terms)

\* the value the filter holds for a key, None when no qualifier has the key
Expected(terms, key) ==
    IF \E i \in 1..Len(terms) : terms[i].key = key
    THEN Some(FieldValue(terms[CHOOSE i \in 1..Len(terms) : terms[i].key = key]))
    ELSE None

\* C20: within one conjunction, repeated type, contract, ledger or tx
\* qualifiers with the same value collapse into one field value, the filter
\* being the filter of the query without the repetition, and two different
\* values for one key make parse_query return ConflictingQualifiers
RepeatsCollapseOrConflict ==
    (last.op = "parse_query" /\ last.written /\ IsFlat(last.query)) =>
        LET terms == Terms(last.query)
            once == WithoutRepetition(terms, 1)
        IN  IF Conflicting(terms)
            THEN last.ret.status = "Err" /\ last.ret.kind = "ConflictingQualifiers"
            ELSE /\ last.ret = parse_query(Render(Rebuilt(once)))
                 /\ last.ret.status = "Ok" =>
                        /\ Len(last.ret.filters) = 1
                        /\ last.ret.filters[1].event_type = Expected(terms, "type")
                        /\ last.ret.filters[1].contract_id = Expected(terms, "contract")
                        /\ last.ret.filters[1].ledger = Expected(terms, "ledger")
                        /\ last.ret.filters[1].tx = Expected(terms, "tx")
                 /\ last.ret.status = "Err" =>
                        /\ last.ret.kind = "InvalidValue"
                        /\ Expected(terms, "tx") # None /\ Expected(terms, "ledger") = None

\* ledger:1 tx:T1 ledger:01 came back as the filter of ledger:1 tx:T1
RepeatsCollapseOrConflictWitness ==
    /\ last.op = "parse_query" /\ last.written
    /\ last.query = AndExpr(<<Qualifier("ledger", "1"), Qualifier("tx", "T1"),
                              Qualifier("ledger", "01")>>)
    /\ last.ret.status = "Ok"
    /\ last.ret.filters = <<[event_type |-> None, contract_id |-> None, topics |-> None,
                             any_topics |-> None, ledger |-> Some(1), tx |-> Some("T1")]>>

\* type:contract contract:C1 type:system was refused
ConflictRefused ==
    /\ last.op = "parse_query" /\ last.written
    /\ last.query = AndExpr(<<Qualifier("type", "contract"), Qualifier("contract", "C1"),
                              Qualifier("type", "system")>>)
    /\ last.ret.kind = "ConflictingQualifiers"


\* a conjunction holds a tx qualifier and no ledger qualifier
LacksLedger(conj) ==
    /\ \E i \in 1..Len(conj) : conj[i].key = "tx"
    /\ \A i \in 1..Len(conj) : conj[i].key # "ledger"

TxWithLedgerAccepted ==
    /\ last.op = "parse_query" /\ last.written
    /\ last.query = AndExpr(<<Qualifier("ledger", "1"),
                              OrExpr(<<Qualifier("tx", "T1"), Qualifier("type", "contract")>>)>>)
    /\ last.ret.status = "Ok" /\ Len(last.ret.filters) = 2
    /\ last.ret.filters[1].tx = Some("T1") /\ last.ret.filters[1].ledger = Some(1)


(***************************************************************************)
(* src/db.rs: matching one event.  The events and the EventQueryParams a   *)
(* scan may meet: stored events with and without contract, of each type,   *)
(* with 0..3 topics, and filters that set each field or leave it out.      *)
(***************************************************************************)
MatchEvents ==
    [contract_id : {None, Some("CA")}, event_type : {0, 1, 2},
     topics : {<<>>, <<"transfer">>, <<"transfer", "GABC">>, <<"GABC", "null", "transfer">>},
     tx_hash : {"T1"}]

MatchFilters ==
    [contract_id : {None, Some("CA"), Some("CB")},
     event_type : {None, Some("contract"), Some("diagnostic"), Some("Contract")},
     topics : {None, Some(<<>>), Some(<<"transfer">>), Some(<<JsonNull, "GABC">>),
               Some(<<"transfer", JsonNull, JsonNull>>)},
     any_topics : {None, Some(<<>>), Some(<<"GABC">>), Some(<<"GABC", "transfer">>),
                   Some(<<JsonNull>>)}]

\* the filters of the lists of two
PairFilters ==
    {f \in MatchFilters :
        /\ f.contract_id \in {None, Some("CA")} /\ f.event_type \in {None, Some("contract")}
        /\ f.topics \in {None, Some(<<JsonNull, "GABC">>)} /\ f.any_topics = None}

MatchParams ==
    [tx : {None, Some("T1"), Some("T2")},
     filters : {<<>>} \cup {<<f>> : f \in MatchFilters}
                   \cup {<<f, g>> : f \in PairFilters, g \in PairFilters}]

\* a scan asks whether an event passes the tx and filter constraints
EventMatchesCall ==
    /\ last = NoCall
    /\ \E e \in MatchEvents, params \in MatchParams :
           last' = [op |-> "event_matches", event |-> e, params |-> params,
                    ret |-> event_matches(e, params)]
    /\ UNCHANGED <<ledgers, latest_ledger, now, eviction, client>>
    /\ UNCHANGED concVars

MatchNext == EventMatchesCall \/ Return

MatchSpec == Init /\ [][MatchNext]_vars

\* the name of the type of an event
TypeName(e) == <<"contract", "system", "diagnostic">>[e.event_type + 1]

\* every field the filter sets holds of the event
FilterHolds(e, f) ==
    /\ f.contract_id # None => e.contract_id = f.contract_id
    /\ f.event_type # None => TypeName(e) = f.event_type[1]
    /\ f.topics # None =>
           /\ Len(e.topics) >= Len(f.topics[1])
           /\ \A i \in 1..Len(f.topics[1]) :
                  f.topics[1][i] # JsonNull => e.topics[i] = f.topics[1][i]
    /\ f.any_topics # None =>
           {f.any_topics[1][k] : k \in 1..Len(f.any_topics[1])}
               \subseteq {e.topics[i] : i \in 1..Len(e.topics)}

\* C22: event_matches(event, params) is true iff params.tx is unset or equals
\* the event's tx_hash, and params.filters is empty or some filter matches; a
\* filter matches iff every field it sets holds: contract_id equal, event_type
\* equal, positional topics (at least as many topics as the filter, every
\* non-wildcard position equal), every any_topics value at some position
EventMatchesIsTheConjunction ==
    last.op = "event_matches" =>
        (last.ret <=>
            /\ (last.params.tx = None \/ last.params.tx = Some(last.event.tx_hash))
            /\ \/ Len(last.params.filters) = 0
               \/ \E i \in 1..Len(last.params.filters) :
                      FilterHolds(last.event, last.params.filters[i]))

\* an event of two topics passed a list of two filters through the second, a
\* wildcard followed by GABC, the first filter failing
EventMatchesIsTheConjunctionWitness ==
    /\ last.op = "event_matches"
    /\ last.ret
    /\ last.params.tx = Some("T1")
    /\ Len(last.params.filters) = 2
    /\ ~FilterHolds(last.event, last.params.filters[1])
    /\ last.params.filters[2].topics = Some(<<JsonNull, "GABC">>)
    /\ Len(last.event.topics) = 2

\* an event of one topic was refused by a filter of three positions of which
\* it matches the only one that is no wildcard
ShortEventRefused ==
    /\ last.op = "event_matches"
    /\ ~last.ret
    /\ last.params.filters =
           <<[contract_id |-> None, event_type |-> None,
              topics |-> Some(<<"transfer", JsonNull, JsonNull>>), any_topics |-> None]>>
    /\ last.event.topics = <<"transfer">>
    /\ last.params.tx = None


(***************************************************************************)
(* src/ledger/event_id.rs: the codec on the whole range of its fields.     *)
(* A u32 is written as its four big-endian bytes.                          *)
(***************************************************************************)
\* 0, 1, 58000000, 2^31 and u32::MAX
U32Samples ==
    {<<0, 0, 0, 0>>, <<0, 0, 0, 1>>, <<3, 117, 2, 128>>, <<128, 0, 0, 0>>,
     <<255, 255, 255, 255>>}

\* the tuples (ledger, phase, tx, sub, event) handed to encode_event_id
CodecTuples == U32Samples \X (0..2) \X U32Samples \X (0..1) \X U32Samples

EncodeFields(t) == EncodeBuf(PackFields(t[1], t[2], t[3], t[4], t[5]))

\* s with its k-th character replaced
Replace(s, k, ch) == [i \in 1..Len(s) |-> IF i = k THEN ch ELSE s[i]]

\* the ids whose last or first payload character is replaced
Altered ==
    LET zero == <<0, 0, 0, 0>>
        ids == {EncodeFields(<<zero, 0, zero, 0, zero>>),
                EncodeFields(<<<<3, 117, 2, 128>>, 1, <<0, 0, 0, 3>>, 0, <<0, 0, 0, 7>>>>),
                EncodeFields(<<<<255, 255, 255, 255>>, 2, zero, 1, <<128, 0, 0, 0>>>>)}
    IN  {Replace(id, k, BASE32_ALPHABET[c]) : id \in ids, k \in {5, 27}, c \in 1..32}

\* the strings handed to decode_event_id: altered ids, ids that are too short
\* or too long, and ids with another prefix or a character outside the alphabet
DecodeInputs ==
    LET id == EncodeFields(<<<<0, 0, 0, 1>>, 1, <<0, 0, 0, 0>>, 0, <<0, 0, 0, 0>>>>)
    IN  Altered \cup {id, SubSeq(id, 1, 26), Append(id, 97), <<>>, EvtPrefix,
                      SubSeq(id, 5, 27), Replace(id, 1, 69), Replace(id, 10, 65),
                      Replace(id, 27, 48)}

\* encode_event_id(t), followed by decode_event_id of what it returned
EncodeEventIdCall ==
    /\ last = NoCall
    /\ \E t \in CodecTuples :
           LET id == EncodeFields(t)
           IN  last' = [op |-> "encode_event_id", fields |-> t, ret |-> id,
                        back |-> DecodeFields(id)]
    /\ UNCHANGED <<ledgers, latest_ledger, now, eviction, client>>
    /\ UNCHANGED concVars

\* decode_event_id(id), followed by encode_event_id of what it returned
DecodeEventIdCall ==
    /\ last = NoCall
    /\ \E id \in DecodeInputs :
           LET t == DecodeFields(id)
           IN  last' = [op |-> "decode_event_id", id |-> id, ret |-> t,
                        again |-> IF t = None THEN None ELSE Some(EncodeFields(Unwrap(t)))]
    /\ UNCHANGED <<ledgers, latest_ledger, now, eviction, client>>
    /\ UNCHANGED concVars

CodecNext == EncodeEventIdCall \/ DecodeEventIdCall \/ Return

CodecSpec == Init /\ [][CodecNext]_vars

\* the characters abcdefghijklmnopqrstuvwxyzBDGNRT
PayloadCharacters == (97..122) \cup {66, 68, 71, 78, 82, 84}

\* C23: for all tuples (ledger: u32, phase in 0..2, tx: u32, sub in 0..1,
\* event: u32), decode_event_id(encode_event_id(t)) = t, and encode_event_id(t)
\* is evt_ followed by exactly 23 characters of the alphabet, 27 in total
CodecRoundTrips ==
    last.op = "encode_event_id" =>
        /\ last.back = Some(last.fields)
        /\ Len(last.ret) = 27
        /\ SubSeq(last.ret, 1, 4) = <<101, 118, 116, 95>>
        /\ \A i \in 5..27 : last.ret[i] \in PayloadCharacters

\* the tuple of the greatest value of every field came back
CodecRoundTripsWitness ==
    /\ last.op = "encode_event_id"
    /\ last.fields = <<<<255, 255, 255, 255>>, 2, <<255, 255, 255, 255>>, 1,
                       <<255, 255, 255, 255>>>>
    /\ last.back = Some(last.fields)

\* C24: every string decode_event_id accepts is the one encode_event_id makes
\* of the tuple it was decoded to, so that no two external ids denote the same
\* event tuple
DecodedIdIsCanonical ==
    (last.op = "decode_event_id" /\ last.ret # None) => last.again = Some(last.id)

\* decode_event_id accepted an id that encode_event_id does not produce
SecondIdAccepted ==
    /\ last.op = "decode_event_id"
    /\ last.ret = Some(<<<<0, 0, 0, 0>>, 0, <<0, 0, 0, 0>>, 0, <<0, 0, 0, 0>>>>)
    /\ last.id # Unwrap(last.again)

\* an altered id was refused
AlteredIdRefused ==
    /\ last.op = "decode_event_id" /\ last.id \in Altered /\ last.ret = None


(***************************************************************************)
(* src/ledger/event_id.rs: the order of the internal ids.                  *)
(***************************************************************************)
MaxIndex == 10000

MaxSequence == 1000000000

\* the events two of which are compared: ledgers of 1 and of 10 digits, tx and
\* event indices of 1, 4 and 5 digits
OrderKeys ==
    {0, 9, 10, MaxSequence} \X EventPhases \X {0, 9, MaxIndex - 1, MaxIndex}
        \X {0, MaxIndex - 1, MaxIndex}

\* event_id of two events
EventIdCall ==
    /\ last = NoCall
    /\ \E a \in OrderKeys, b \in OrderKeys :
           last' = [op |-> "event_id", a |-> a, b |-> b,
                    id_a |-> event_id(a[1], a[2], a[3], a[4]),
                    id_b |-> event_id(b[1], b[2], b[3], b[4])]
    /\ UNCHANGED <<ledgers, latest_ledger, now, eviction, client>>
    /\ UNCHANGED concVars

OrderNext == EventIdCall \/ Return

OrderSpec == Init /\ [][OrderNext]_vars

\* (ledger, phase, tx, sub, event) of an event
ExecutionTuple(k) ==
    <<k[1], as_phase_sub(k[2])[1], k[3], as_phase_sub(k[2])[2], k[4]>>

\* the lexicographic order of two integer tuples of one length
TupleLess(s, t) ==
    \E i \in 1..Len(s) : s[i] < t[i] /\ \A j \in 1..(i - 1) : s[j] = t[j]

\* C25: for any two events a and b with u32 ledger, tx and event indices,
\* event_id(a) < event_id(b) in string order iff (ledger, phase, tx, sub, event)
\* of a is less than that of b in the lexicographic order of the tuples
IdOrderIsExecutionOrder ==
    last.op = "event_id" =>
        (StrLess(last.id_a, last.id_b)
            <=> TupleLess(ExecutionTuple(last.a), ExecutionTuple(last.b)))

\* the same for the events whose tx and event indices have at most four digits
IdOrderIsExecutionOrderBelow ==
    (/\ last.op = "event_id"
     /\ \A k \in {last.a, last.b} : k[3] < MaxIndex /\ k[4] < MaxIndex)
        => (StrLess(last.id_a, last.id_b)
               <=> TupleLess(ExecutionTuple(last.a), ExecutionTuple(last.b)))

\* the id of tx 10000 came before the id of tx 9999 of the same ledger and phase
FiveDigitsSortFirst ==
    /\ last.op = "event_id"
    /\ last.a = <<10, "Operation", MaxIndex, 0>>
    /\ last.b = <<10, "Operation", MaxIndex - 1, 0>>
    /\ StrLess(last.id_a, last.id_b)


(***************************************************************************)
(* src/api/routes.rs: list_events and backfill_if_needed, on the store of  *)
(* src/db.rs.  A fetch of a ledger ends in Ok with the events of the       *)
(* ledger, in LedgerNotFound or in another error.                          *)
(***************************************************************************)
BACKFILL_BATCH_SIZE == 100

DefaultLimit == 10

MaxRequestLimit == 100

FarLedger == 120

\* a query that walks the partitions is evaluated on stores of up to this many
MaxScanned == 8

FetchOutcomes == {"Ok", "LedgerNotFound", "Error"}

Min(a, b) == IF a <= b THEN a ELSE b

\* one turn of the loop over the results: the ledger is stored and recorded
\* when its fetch ended in Ok, and left alone otherwise
StoreResult(s, seq, outcome, t) ==
    IF outcome[seq] = "Ok"
    THEN record_ledger_cached(insert_events(s, RemoteLedger(seq), t), seq, t)
    ELSE s

\* the loop over the results.  Each turn touches the partition of its own
\* ledger only and fetch_max commutes, so the turns are taken side by side:
\* a key the store lacked gets the partition its own turn made
StoreResults(s, uncached, outcome, t) ==
    LET turn == [seq \in uncached |-> StoreResult(s, seq, outcome, t)]
        keys == DOMAIN s.ledgers \cup UNION {DOMAIN turn[seq].ledgers : seq \in uncached}
        latest == {s.latest_ledger} \cup {turn[seq].latest_ledger : seq \in uncached}
    IN  [ledgers       |-> [k \in keys |-> IF k \in DOMAIN s.ledgers THEN s.ledgers[k]
                                           ELSE turn[k].ledgers[k]],
         latest_ledger |-> CHOOSE x \in latest : \A y \in latest : y <= x]

\* the ledgers backfill_if_needed(state, target_ledger) fetches at time t
Uncached(s, target_ledger, t) ==
    LET latest == IF latest_ledger_sequence(s) = None THEN 0
                  ELSE Unwrap(latest_ledger_sequence(s))
    IN  IF target_ledger > latest THEN {}
        ELSE LET range == Min(BACKFILL_BATCH_SIZE, (latest - target_ledger) + 1)
             IN  find_uncached_ledgers(s, target_ledger, range, t)

\* backfill_if_needed(state, target_ledger) at time t, the fetches ending as
\* outcome says: the store it leaves and the ledgers it fetched
backfill_if_needed(s, target_ledger, outcome, t) ==
    LET uncached == Uncached(s, target_ledger, t)
    IN  [store |-> StoreResults(s, uncached, outcome, t), fetched |-> uncached]

\* the outcomes of the fetches of a set of ledgers: every combination for up
\* to three ledgers, and all alike or in turns for more
Outcomes(S) ==
    IF Cardinality(S) <= 3 THEN [S -> FetchOutcomes]
    ELSE {[seq \in S |-> k] : k \in FetchOutcomes}
             \cup {[seq \in S |-> <<"Ok", "LedgerNotFound", "Error">>[(seq % 3) + 1]]}

BadRequest(message, param) ==
    [status |-> 400, message |-> message, param |-> param, data |-> <<>>]

\* a variant that lets both cursors through
NeverBothCursors(req) == FALSE

\* after and before are both provided
BothCursors(req) == IsSome(req.after) /\ IsSome(req.before)

\* req.limit.unwrap_or(10)
RequestLimit(req) == IF req.limit = None THEN DefaultLimit ELSE Unwrap(req.limit)

\* a variant that lets a limit of 0 through
LimitAboveRange(limit) == limit > MaxRequestLimit

\* limit == 0 || limit > 100
LimitOutOfRange(limit) == limit = 0 \/ limit > MaxRequestLimit

\* list_events(state, req) up to the backfill: the error it returns, or None
Rejected(req) ==
    IF LimitOutOfRange(RequestLimit(req))
    THEN Some(BadRequest("limit must be between 1 and 100", Some("limit")))
    ELSE IF BothCursors(req)
    THEN Some(BadRequest("after and before cannot both be provided", None))
    ELSE IF IsSome(req.after) /\ parse_event_id(Unwrap(req.after)) = None
    THEN Some(BadRequest("invalid cursor", Some("after")))
    ELSE IF IsSome(req.tx) /\ req.ledger = None
    THEN Some(BadRequest("ledger is required when tx is provided", Some("ledger")))
    ELSE IF \E i \in 1..Len(req.filters) :
                /\ IsSome(req.filters[i].event_type)
                /\ parse_event_type(Unwrap(req.filters[i].event_type)) = None
    THEN Some(BadRequest("invalid event type", Some("filters[].type")))
    ELSE None

\* the target ledger of the on-demand backfill
TargetLedger(req) ==
    IF IsSome(req.ledger) THEN req.ledger
    ELSE IF IsSome(req.after) THEN Some(Unwrap(parse_event_id(Unwrap(req.after)))[1])
    ELSE None

\* the EventQueryParams list_events hands to query_events
ParamsOf(req) ==
    [limit |-> RequestLimit(req),
     after |-> req.after, before |-> req.before, ledger |-> req.ledger, tx |-> req.tx,
     filters |-> req.filters]

\* the stores a request may meet: the ledgers of S cached at time 0
RECURSIVE StoreOf(_)
StoreOf(S) ==
    IF S = {} THEN NewStore
    ELSE LET seq == SetMax(S)
         IN  record_ledger_cached(insert_events(StoreOf(S \ {seq}), RemoteLedger(seq), 0),
                                  seq, 0)

ApiStores == {StoreOf(S) : S \in {{}, {1}, {2}, {1, 2}, {FarLedger}, {1, FarLedger}}}

\* the requests of the model
ListRequests ==
    LET after == event_id(1, "AfterTx", 0, 0)
        before == event_id(1, "Operation", 0, 0)
    IN  [limit : {None, Some(0), Some(1), Some(MaxRequestLimit), Some(MaxRequestLimit + 1)},
         after : {None, Some(after), Some(<<120>>)},
         before : {None, Some(before)},
         ledger : {None, Some(0), Some(1), Some(2), Some(5)},
         tx : {None}, filters : {<<>>}]
        \cup [limit : {None}, after : {None}, before : {None}, ledger : {None, Some(1)},
              tx : {Some(<<"tx", 1, 0>>)},
              filters : {<<>>, <<SystemFilter>>,
                         <<[SystemFilter EXCEPT !.event_type = Some("nothing")]>>}]

ApiInit ==
    /\ \E s \in ApiStores : ledgers = s.ledgers /\ latest_ledger = s.latest_ledger
    /\ now = 0
    /\ last = NoCall
    /\ eviction = Sleeping
    /\ client = Idle
    /\ entries = <<>>
    /\ partitions = <<>>
    /\ writer = [w \in Writers |-> WriterIdle]
    /\ reader = ReaderIdle

\* a list request is rejected before the store is touched
ListEventsRejected ==
    /\ last = NoCall
    /\ \E req \in ListRequests :
           /\ Rejected(req) # None
           /\ last' = [op |-> "list_events", req |-> req, response |-> Unwrap(Rejected(req)),
                       backfilled |-> FALSE, fetched |-> {}, outcome |-> <<>>,
                       scanned |-> FALSE, params |-> ParamsOf(req), store_before |-> store,
                       time |-> now]
    /\ UNCHANGED <<ledgers, latest_ledger, now, eviction, client>>
    /\ UNCHANGED concVars

\* a list request is answered: the backfill of its target ledger, then the query
ListEventsAnswered ==
    /\ last = NoCall
    /\ \E req \in ListRequests :
           /\ Rejected(req) = None
           /\ LET target == TargetLedger(req)
                  wanted == IF target = None THEN {} ELSE Uncached(store, Unwrap(target), now)
              IN  \E outcome \in Outcomes(wanted) :
                      LET filled == IF target = None THEN [store |-> store, fetched |-> {}]
                                    ELSE backfill_if_needed(store, Unwrap(target), outcome, now)
                      IN  /\ \/ IsSome(PinnedLedger(filled.store, ParamsOf(req)))
                             \/ Cardinality(DOMAIN filled.store.ledgers) <= MaxScanned
                          /\ SetStore(filled.store)
                          /\ \E result \in query_events(filled.store, ParamsOf(req)) :
                                 last' = [op |-> "list_events", req |-> req,
                                          response |-> [status |-> 200, message |-> "",
                                                        param |-> None, data |-> result.data],
                                          backfilled |-> IsSome(target),
                                          fetched |-> filled.fetched, outcome |-> outcome,
                                          scanned |-> TRUE, params |-> ParamsOf(req),
                                          store_before |-> store, time |-> now]
    /\ UNCHANGED <<now, eviction, client>>
    /\ UNCHANGED concVars

\* a behaviour is one request against one of the stores, sooner or later
ApiNext == ListEventsRejected \/ ListEventsAnswered \/ Tick

ApiSpec == ApiInit /\ [][ApiNext]_vars


(***************************************************************************)
(* Claims about list_events and its on-demand backfill.                    *)
(***************************************************************************)
ListCalled == last.op = "list_events"

\* the request of last was turned down without a look at the store
TurnedDownUntouched ==
    /\ last.response.status = 400
    /\ last.response.data = <<>>
    /\ ~last.backfilled
    /\ last.fetched = {}
    /\ ~last.scanned
    /\ store = last.store_before

LimitChecked ==
    ListCalled =>
        /\ (last.req.limit # None /\ Unwrap(last.req.limit) \notin 1..100) =>
               /\ TurnedDownUntouched
               /\ last.response.param = Some("limit")
        /\ (last.req.limit = None \/ Unwrap(last.req.limit) \in 1..100) =>
               last.response.param # Some("limit")
        /\ last.response.status = 200 =>
               /\ last.params.limit = (IF last.req.limit = None THEN 10
                                       ELSE Unwrap(last.req.limit))
               /\ Len(last.response.data) <= last.params.limit

\* limit 0 is turned down on a store the backfill would have fetched for
LimitZeroRejected ==
    /\ ListCalled
    /\ last.req.limit = Some(0)
    /\ last.req.ledger = Some(1)
    /\ Uncached(last.store_before, 1, last.time) # {}
    /\ last.response.param = Some("limit")

\* limit 101 is turned down
LimitAboveRejected == ListCalled /\ last.req.limit = Some(101) /\ last.response.status = 400

\* limit 1 is answered with one row of a ledger that holds two
LimitOneAccepted ==
    /\ ListCalled
    /\ last.req.limit = Some(1)
    /\ last.response.status = 200
    /\ Len(last.response.data) = 1

\* limit 100 and an absent limit are answered
LimitHundredAccepted ==
    ListCalled /\ last.req.limit = Some(100) /\ last.response.status = 200

AbsentLimitAccepted ==
    ListCalled /\ last.req.limit = None /\ last.response.status = 200 /\ last.params.limit = 10


\* the request of last was answered after a backfill
Backfilled == ListCalled /\ last.response.status = 200 /\ last.backfilled

\* the partition of seq holds the events fetched for seq, each once
HoldsRemote(s, seq) ==
    /\ seq \in DOMAIN s.ledgers
    /\ LET events == s.ledgers[seq].events
           fetched == RemoteLedger(seq)
       IN  /\ Len(events) = Len(fetched)
           /\ {events[i] : i \in 1..Len(events)}
                  = {StoredEvent(fetched[i]) : i \in 1..Len(fetched)}

\* the partition of seq, or None
PartitionOf(s, seq) == IF seq \in DOMAIN s.ledgers THEN Some(s.ledgers[seq]) ELSE None

\* what a backfill leaves alone: the ledgers it did not fetch, the ledgers
\* whose fetch failed, which stay uncached, and latest_ledger
OthersUntouched ==
    /\ DOMAIN store.ledgers \subseteq DOMAIN last.store_before.ledgers \cup last.fetched
    /\ \A seq \in DOMAIN last.store_before.ledgers \ last.fetched :
           PartitionOf(store, seq) = PartitionOf(last.store_before, seq)
    /\ \A seq \in last.fetched :
           last.outcome[seq] # "Ok" =>
               /\ PartitionOf(store, seq) = PartitionOf(last.store_before, seq)
               /\ ~is_ledger_cached(store, seq, last.time)
    /\ store.latest_ledger = last.store_before.latest_ledger

\* C28: whatever the outcomes of the fetches of a backfill, the request is
\* answered normally; the ledgers whose fetch succeeded are cached with the
\* fetched events afterwards, and they only: the ledgers whose fetch failed
\* stay uncached and the rest of the store is as it was.
BackfillStoresSucceeded ==
    /\ (ListCalled /\ Rejected(last.req) = None) => last.response.status = 200
    /\ Backfilled =>
           /\ OthersUntouched
           /\ \A seq \in last.fetched :
                  last.outcome[seq] = "Ok" =>
                      /\ HoldsRemote(store, seq)
                      /\ is_ledger_cached(store, seq, last.time)

\* the same with the ledgers that had an expired partition left out: a
\* fetched ledger that had no partition is cached when its fetch succeeded
BackfillStoresSucceededAbsent ==
    /\ (ListCalled /\ Rejected(last.req) = None) => last.response.status = 200
    /\ Backfilled =>
           /\ OthersUntouched
           /\ \A seq \in last.fetched :
                  last.outcome[seq] = "Ok" =>
                      /\ HoldsRemote(store, seq)
                      /\ seq \notin DOMAIN last.store_before.ledgers =>
                             is_ledger_cached(store, seq, last.time)

\* a backfill whose fetches ended in each of the three outcomes
MixedOutcomesAnswered ==
    /\ Backfilled
    /\ \A k \in FetchOutcomes : \E seq \in last.fetched : last.outcome[seq] = k

\* the fetch of a ledger with an expired partition succeeded and the ledger
\* is as expired as before
ExpiredLedgerRefetched ==
    /\ Backfilled
    /\ \E seq \in last.fetched :
           /\ last.outcome[seq] = "Ok"
           /\ seq \in DOMAIN last.store_before.ledgers
           /\ ~is_ledger_cached(store, seq, last.time)


\* the request of last passed the checks with a target ledger for the backfill
BackfillCalled == ListCalled /\ last.backfilled

\* the greatest ledger of the store the backfill met, 0 standing for none
LatestBefore ==
    IF DOMAIN last.store_before.ledgers = {} THEN 0
    ELSE CHOOSE x \in DOMAIN last.store_before.ledgers :
             \A y \in DOMAIN last.store_before.ledgers : y <= x

\* the fetched ledgers lie in [target, min(target + 100, latest + 1)), were
\* absent or expired, and are 100 at most
FetchedInWindow ==
    LET target == Unwrap(TargetLedger(last.req))
    IN  /\ \A seq \in last.fetched :
               /\ target <= seq
               /\ seq < Min(target + 100, LatestBefore + 1)
               /\ seq <= LatestBefore
               /\ ~is_ledger_cached(last.store_before, seq, last.time)
        /\ Cardinality(last.fetched) <= 100
        /\ target > LatestBefore => last.fetched = {}

\* C29: backfill_if_needed(target) fetches only ledgers of
\* [target, min(target + 100, latest + 1)) that were absent or expired, 100
\* at most and none above latest_ledger; it fetches nothing when target is
\* above latest_ledger, and nothing when the store is empty.
BackfillWindowHonoured ==
    BackfillCalled =>
        /\ FetchedInWindow
        /\ DOMAIN last.store_before.ledgers = {} => last.fetched = {}

\* the same on a store that holds a ledger
BackfillWindowOfCachedStore ==
    (BackfillCalled /\ DOMAIN last.store_before.ledgers # {}) => FetchedInWindow

\* a backfill on the empty store with a target above 0 fetches nothing
EmptyStoreAboveZero ==
    (BackfillCalled /\ DOMAIN last.store_before.ledgers = {}
        /\ Unwrap(TargetLedger(last.req)) > 0) => last.fetched = {}

\* the window is cut at 100 ledgers although more are uncached up to latest
HundredFetched ==
    /\ BackfillCalled
    /\ Cardinality(last.fetched) = 100
    /\ LatestBefore >= Unwrap(TargetLedger(last.req)) + 100

\* the window is cut at latest_ledger
FetchedUpToLatest ==
    /\ BackfillCalled
    /\ Unwrap(TargetLedger(last.req)) < LatestBefore
    /\ LatestBefore \in DOMAIN last.store_before.ledgers
    /\ last.fetched # {}

\* ledger 0 is fetched for the empty store
LedgerZeroFetched ==
    /\ BackfillCalled
    /\ DOMAIN last.store_before.ledgers = {}
    /\ last.fetched = {0}


(***************************************************************************)
(* src/sync.rs: the loop of run_sync.  The tailer's record in writer holds *)
(* current_ledger and consecutive_failures, how its last iteration ended   *)
(* and how long it sleeps; failures, previous and last_backoff are kept    *)
(* for the claims: the errors since a ledger was last stored or skipped,   *)
(* and the backoff before this one in the same run of errors.              *)
(***************************************************************************)
POLL_INTERVAL == 5

MaxBackoffExponent == 6

MaxBackoffSeconds == 60

\* the batch size the service was started with
ParallelFetches == 2

\* the tailer is followed up to this ledger and this many failures in a row
MaxTailLedger == 3

MaxFailures == 8

RECURSIVE SkipCached(_, _, _, _)
\* loop { if cached { current_ledger += 1; consecutive_failures = 0 } else { break } }
SkipCached(s, current_ledger, consecutive_failures, t) ==
    IF is_ledger_cached(s, current_ledger, t)
    THEN SkipCached(s, current_ledger + 1, 0, t)
    ELSE [current_ledger |-> current_ledger, consecutive_failures |-> consecutive_failures]

\* the Ok arm of the loop over the results: insert_events,
\* record_ledger_cached, set_sync_state("last_synced_ledger", seq),
\* advanced += 1, consecutive_failures = 0; stored and synced list the
\* ledgers given to the store and the values written, in the order of the calls
StoreFetched(batch_sequences, i, t, st) ==
    [store |-> record_ledger_cached(
                   insert_events(st.store, RemoteLedger(batch_sequences[i]), t),
                   batch_sequences[i], t),
     advanced |-> st.advanced + 1,
     consecutive_failures |-> 0,
     should_sleep |-> st.should_sleep,
     stored |-> Append(st.stored, batch_sequences[i]),
     synced |-> Append(st.synced, batch_sequences[i])]

RECURSIVE ProcessEveryResult(_, _, _, _, _)
\* a variant that goes on with the results behind a failed one
ProcessEveryResult(batch_sequences, results, i, t, st) ==
    IF i > Len(results) THEN st
    ELSE IF results[i] = "Ok"
    THEN ProcessEveryResult(batch_sequences, results, i + 1, t,
                            StoreFetched(batch_sequences, i, t, st))
    ELSE IF results[i] = "LedgerNotFound"
    THEN ProcessEveryResult(batch_sequences, results, i + 1, t,
                            [st EXCEPT !.should_sleep = "NotFound"])
    ELSE ProcessEveryResult(batch_sequences, results, i + 1, t,
             [st EXCEPT !.consecutive_failures = @ + 1, !.should_sleep = "Error"])

RECURSIVE ProcessResults(_, _, _, _, _)
\* for (i, result) in results: Ok stores the ledger and clears the counter,
\* LedgerNotFound and any other error end the loop
ProcessResults(batch_sequences, results, i, t, st) ==
    IF i > Len(results) THEN st
    ELSE IF results[i] = "Ok"
    THEN ProcessResults(batch_sequences, results, i + 1, t,
                        StoreFetched(batch_sequences, i, t, st))
    ELSE IF results[i] = "LedgerNotFound"
    THEN [st EXCEPT !.should_sleep = "NotFound"]
    ELSE [st EXCEPT !.consecutive_failures = @ + 1, !.should_sleep = "Error"]

\* a variant whose exponent stops at 5
BackoffFive(consecutive_failures) ==
    Min(2 ^ Min(consecutive_failures, 5), MaxBackoffSeconds)

\* Duration::from_secs((2u64.pow(consecutive_failures.min(6))).min(60))
Backoff(consecutive_failures) ==
    Min(2 ^ Min(consecutive_failures, MaxBackoffExponent), MaxBackoffSeconds)

\* a variant that leaves the ledger whose fetch ended in an error behind
TailerTurnMovingOn(s, tailer, results, t) ==
    LET skipped == SkipCached(s, tailer.current_ledger, tailer.consecutive_failures, t)
        batch_sequences == [i \in 1..ParallelFetches |-> skipped.current_ledger + (i - 1)]
        processed == {ProcessResults(batch_sequences, results, 1, t,
                          [store |-> s, advanced |-> 0,
                           consecutive_failures |-> skipped.consecutive_failures,
                           should_sleep |-> "None", stored |-> <<>>, synced |-> <<>>])}
    IN  CHOOSE turn \in {
        [store |-> st.store,
         first |-> skipped.current_ledger,
         stored |-> st.stored,
         synced |-> st.synced,
         current_ledger |-> skipped.current_ledger + st.advanced
                            + (IF st.should_sleep = "Error" THEN 1 ELSE 0),
         consecutive_failures |-> st.consecutive_failures,
         ended |-> st.should_sleep,
         sleep |-> CASE st.should_sleep = "NotFound" -> POLL_INTERVAL
                     [] st.should_sleep = "Error" -> Backoff(st.consecutive_failures)
                     [] OTHER -> 0,
         skipped |-> skipped.current_ledger - tailer.current_ledger,
         advanced |-> st.advanced] : st \in processed} : TRUE

\* one turn of the outer loop of run_sync on store s at time t, the fetches of
\* the batch ending as results says
TailerTurn(s, tailer, results, t) ==
    LET skipped == SkipCached(s, tailer.current_ledger, tailer.consecutive_failures, t)
        batch_sequences == [i \in 1..ParallelFetches |-> skipped.current_ledger + (i - 1)]
        processed == {ProcessResults(batch_sequences, results, 1, t,
                          [store |-> s, advanced |-> 0,
                           consecutive_failures |-> skipped.consecutive_failures,
                           should_sleep |-> "None", stored |-> <<>>, synced |-> <<>>])}
    IN  CHOOSE turn \in {
        [store |-> st.store,
         first |-> skipped.current_ledger,
         stored |-> st.stored,
         synced |-> st.synced,
         current_ledger |-> skipped.current_ledger + st.advanced,
         consecutive_failures |-> st.consecutive_failures,
         ended |-> st.should_sleep,
         sleep |-> CASE st.should_sleep = "NotFound" -> POLL_INTERVAL
                     [] st.should_sleep = "Error" -> Backoff(st.consecutive_failures)
                     [] OTHER -> 0,
         skipped |-> skipped.current_ledger - tailer.current_ledger,
         advanced |-> st.advanced] : st \in processed} : TRUE

\* the errors since a ledger was last stored or skipped, after a turn that
\* skipped and stored so many ledgers and ended so
FailuresAfter(failures, skipped, advanced, ended) ==
    IF ended = "Error" THEN (IF skipped + advanced > 0 THEN 1 ELSE failures + 1)
    ELSE IF skipped + advanced > 0 THEN 0
    ELSE failures

TailerStart ==
    [pc |-> "running", current_ledger |-> 1, consecutive_failures |-> 0, ended |-> "None",
     sleep |-> 0, failures |-> 0, previous |-> 0, last_backoff |-> 0, skipped |-> 0,
     advanced |-> 0, start |-> 1, stored |-> <<>>, synced |-> <<>>, passed |-> {},
     first |-> 1, results |-> <<>>, turn_stored |-> <<>>]

TailInit ==
    /\ ledgers = NewStore.ledgers
    /\ latest_ledger = NewStore.latest_ledger
    /\ now = 0
    /\ last = NoCall
    /\ eviction = Sleeping
    /\ client = Idle
    /\ entries = <<>>
    /\ partitions = <<>>
    /\ writer = [w \in Writers |-> IF w = "tailer" THEN TailerStart ELSE WriterIdle]
    /\ reader = ReaderIdle

\* the fetches of the batch ended as results says: the store and the
\* tailer after the iteration
TailerFetched(results) ==
    \E turn \in {TailerTurn(store, writer["tailer"], results, now)} :
           LET old == writer["tailer"]
               reset == turn.skipped + turn.advanced > 0
           IN  /\ SetStore(turn.store)
               /\ writer' = [writer EXCEPT !["tailer"] =
                      [pc |-> IF turn.ended = "None" THEN "running" ELSE "sleeping",
                       current_ledger |-> turn.current_ledger,
                       consecutive_failures |-> turn.consecutive_failures,
                       ended |-> turn.ended,
                       sleep |-> turn.sleep,
                       failures |-> FailuresAfter(old.failures, turn.skipped, turn.advanced,
                                                  turn.ended),
                       previous |-> IF reset THEN 0 ELSE old.last_backoff,
                       last_backoff |-> IF turn.ended = "Error" THEN turn.sleep
                                        ELSE IF reset THEN 0 ELSE old.last_backoff,
                       skipped |-> turn.skipped,
                       advanced |-> turn.advanced,
                       start |-> old.start,
                       stored |-> old.stored \o turn.stored,
                       synced |-> old.synced \o turn.synced,
                       passed |-> old.passed \cup (old.current_ledger..(turn.first - 1)),
                       first |-> turn.first,
                       results |-> results,
                       turn_stored |-> turn.stored]]

\* one iteration of the loop of run_sync, up to its sleep
TailerIteration ==
    /\ writer["tailer"].pc = "running"
    /\ writer["tailer"].current_ledger <= MaxTailLedger
    /\ writer["tailer"].consecutive_failures < MaxFailures
    /\ \E results \in [1..ParallelFetches -> FetchOutcomes] : TailerFetched(results)
    /\ UNCHANGED <<now, last, eviction, client, entries, partitions, reader>>

\* tokio::time::sleep(..).await returns
TailerWake ==
    /\ writer["tailer"].pc = "sleeping"
    /\ writer' = [writer EXCEPT !["tailer"].pc = "running"]
    /\ UNCHANGED <<ledgers, latest_ledger, now, last, eviction, client, entries, partitions,
                   reader>>

\* a backfill caches a ledger the tailer has not reached, while it sleeps
BackfillAhead ==
    /\ writer["tailer"].pc = "sleeping"
    /\ \E seq \in 1..MaxTailLedger :
           /\ seq >= writer["tailer"].current_ledger
           /\ ~is_ledger_cached(store, seq, now)
           /\ SetStore(record_ledger_cached(insert_events(store, RemoteLedger(seq), now),
                                            seq, now))
    /\ UNCHANGED <<now, last, eviction, client>>
    /\ UNCHANGED concVars

TailNext == TailerIteration \/ TailerWake \/ BackfillAhead \/ Tick

TailSpec == TailInit /\ [][TailNext]_vars

\* C30: after an iteration that ended in an error, the n-th since a ledger
\* was last stored or skipped as cached (n >= 1), the tailer sleeps
\* min(2^n, 60) seconds, which is never more than 60 nor less than the
\* backoff before it in the same run of errors; after an iteration that ended
\* in ledger-not-found it sleeps 5 seconds; and the failure counter is the
\* number of errors since a ledger was last stored or skipped: 0 as soon as
\* one is.
TailerBackoff ==
    LET tailer == writer["tailer"]
    IN  (tailer.pc \in {"running", "sleeping"}) =>
            /\ tailer.ended = "Error" =>
                   /\ tailer.failures >= 1
                   /\ tailer.sleep = Min(2 ^ tailer.failures, 60)
                   /\ tailer.sleep <= 60
                   /\ tailer.sleep >= tailer.previous
            /\ tailer.ended = "NotFound" => tailer.sleep = 5
            /\ tailer.ended = "None" => (tailer.sleep = 0 /\ tailer.pc = "running")
            /\ tailer.consecutive_failures = tailer.failures
            /\ (tailer.skipped + tailer.advanced > 0) =>
                   tailer.consecutive_failures = (IF tailer.ended = "Error" THEN 1 ELSE 0)

\* the seventh error in a row: the backoff is cut from 128 to 60 seconds
TailerBackoffWitness ==
    /\ writer["tailer"].ended = "Error"
    /\ writer["tailer"].failures = 7
    /\ writer["tailer"].sleep = 60
    /\ writer["tailer"].previous = 60

\* the sixth error in a row sleeps 60 seconds after 32
SixthErrorSleepsSixty ==
    /\ writer["tailer"].ended = "Error"
    /\ writer["tailer"].failures = 6
    /\ writer["tailer"].sleep = 60
    /\ writer["tailer"].previous = 32

\* a ledger stored in the batch of an iteration clears the counter before
\* the error that ends the iteration: the backoff is 2 seconds again
StoredThenError ==
    /\ writer["tailer"].ended = "Error"
    /\ writer["tailer"].advanced = 1
    /\ writer["tailer"].sleep = 2

\* a ledger skipped as cached clears the counter
SkippedClearsCounter ==
    /\ writer["tailer"].skipped > 0
    /\ writer["tailer"].ended = "NotFound"
    /\ writer["tailer"].consecutive_failures = 0
    /\ writer["tailer"].sleep = 5

\* an iteration that ends in ledger-not-found leaves the counter as it was
NotFoundKeepsCounter ==
    /\ writer["tailer"].ended = "NotFound"
    /\ writer["tailer"].consecutive_failures = 3


\* the ledgers of the backfill of last whose fetch succeeded
Succeeded == {seq \in last.fetched : last.outcome[seq] = "Ok"}

\* C32: after backfill_if_needed returns, every ledger whose fetch succeeded
\* is cached and unexpired, a ledger that had an expired partition included:
\* is_ledger_cached holds for it, find_uncached_ledgers does not list it, and
\* the same request made again fetches none of these ledgers.
SucceededLedgersCached ==
    BackfillCalled =>
        \A seq \in Succeeded :
            /\ is_ledger_cached(store, seq, last.time)
            /\ seq \notin find_uncached_ledgers(store, seq, 1, last.time)
            /\ seq \notin Uncached(store, Unwrap(TargetLedger(last.req)), last.time)

\* the same for the ledgers that had no partition when the backfill looked
SucceededAbsentLedgersCached ==
    BackfillCalled =>
        \A seq \in Succeeded \ DOMAIN last.store_before.ledgers :
            /\ is_ledger_cached(store, seq, last.time)
            /\ seq \notin find_uncached_ledgers(store, seq, 1, last.time)
            /\ seq \notin Uncached(store, Unwrap(TargetLedger(last.req)), last.time)

\* a ledger with an expired partition was fetched with success and the same
\* request would fetch it again
SecondFetchTriggered ==
    /\ BackfillCalled
    /\ \E seq \in Succeeded :
           /\ seq \in DOMAIN last.store_before.ledgers
           /\ last.store_before.ledgers[seq].expires_at <= last.time
           /\ seq \in Uncached(store, Unwrap(TargetLedger(last.req)), last.time)

\* a ledger without partition was fetched with success and is cached
AbsentLedgerCached ==
    /\ BackfillCalled
    /\ \E seq \in Succeeded :
           seq \notin DOMAIN last.store_before.ledgers /\ is_ledger_cached(store, seq, last.time)


RECURSIVE AndsOfQualifiers(_)
\* every And node of the expression has Qualifier children only
AndsOfQualifiers(expr) ==
    IF expr.kind = "Qualifier" THEN TRUE
    ELSE /\ expr.kind = "And" =>
                \A k \in 1..Len(expr.children) : expr.children[k].kind = "Qualifier"
         /\ \A k \in 1..Len(expr.children) : AndsOfQualifiers(expr.children[k])

\* the expression the parser made of the tokens of last
ParsedExpr == parse_or(last.tokens, NewParser).value.expr

\* C35: for every expression the parser produces within the caps, an Or that
\* is a direct child of an Or below an And included, to_dnf returns an
\* expression whose And nodes have only Qualifier children, and parse_query
\* returns Ok or an error: it never panics in flatten_or.
DnfAndsHoldQualifiers ==
    (CalledWithinCaps /\ last.parsed) =>
        /\ AndsOfQualifiers(to_dnf(ParsedExpr))
        /\ last.ret.status \in {"Ok", "Err"}

\* the same for the expressions with no Or directly below an Or
DnfAndsHoldQualifiersFlatOr ==
    (CalledWithinCaps /\ last.parsed /\ AndsOfQualifiers(to_dnf(ParsedExpr))) =>
        last.ret.status \in {"Ok", "Err"}

\* to_dnf left an Or below an And, and flatten_or panicked on it
OrLeftBelowAnd ==
    /\ CalledWithinCaps /\ last.parsed
    /\ ~AndsOfQualifiers(to_dnf(ParsedExpr))
    /\ last.ret.status = "Panic"


\* the next of the query of last, as the cursor the client passes back
NextCursor == Unwrap(BeforeCursor(Unwrap(last.result.next)))

\* the events of the store, by internal id
StoredIds == UNION {{ledgers[L].events[i].id : i \in 1..Len(ledgers[L].events)} : L \in DOMAIN ledgers}

\* C31: the next of a query with before = c, or with no cursor, is the id of
\* a stored event, strictly smaller than c when c is given, so that a client
\* that passes next back as before gets strictly decreasing cursors and,
\* the store being finite, a response without next after finitely many
\* requests.
NextBelowBefore ==
    (IsQuery /\ last.params.after = None /\ IsSome(last.result.next)) =>
        /\ NextCursor \in StoredIds
        /\ IsSome(last.params.before) => StrLess(NextCursor, Unwrap(last.params.before))

\* the same on a store whose partitions hold no id twice
NextBelowBeforeOnStrictPartitions == PartitionsStrictlyIncreasing => NextBelowBefore

\* the cursors of the paging client decrease from request to request on a
\* store whose partitions hold no id twice
PagingCursorsDecrease ==
    [][(/\ PartitionsStrictlyIncreasing
        /\ client.phase = "paging" /\ IsSome(client.before)
        /\ client'.phase = "paging" /\ IsSome(client'.before))
            => StrLess(Unwrap(client'.before), Unwrap(client.before))]_vars

\* a query with before = c answered with next = c
NextEqualsCursor ==
    /\ IsQuery /\ last.params.after = None /\ IsSome(last.params.before)
    /\ IsSome(last.result.next)
    /\ NextCursor = Unwrap(last.params.before)

\* the paging client has made all its requests and still holds a cursor: an
\* id that a partition holds twice, which it was sent back again and again
PagingCursorRepeated ==
    /\ client.phase = "paging" /\ client.pages = MaxPages
    /\ IsSome(client.before)
    /\ \E L \in DOMAIN ledgers :
           \E i, j \in 1..Len(ledgers[L].events) :
               i < j /\ ledgers[L].events[i].id = client.before[1]
                     /\ ledgers[L].events[j].id = client.before[1]


\* the query of last had no cursor and no ledger, and its response holds no
\* row and no next
EmptyUnpinnedAnswer ==
    /\ IsQuery
    /\ last.params.after = None /\ last.params.before = None /\ last.params.ledger = None
    /\ last.result.data = <<>>
    /\ last.result.next = None

\* C34: a query with no cursor and no ledger is answered with no data and no
\* next only when no cached partition holds an event: while a partition holds
\* one the response carries data or a next to continue from, also when the
\* partition of the latest ledger is empty.
EmptyAnswerMeansNoEvents ==
    EmptyUnpinnedAnswer => \A L \in DOMAIN ledgers : ledgers[L].events = <<>>

\* the same when latest_ledger names a ledger whose partition holds an event
EmptyAnswerWithEventsInLatest ==
    (/\ latest_ledger > 0
     /\ latest_ledger \in DOMAIN ledgers
     /\ ledgers[latest_ledger].events # <<>>) => ~EmptyUnpinnedAnswer

\* the empty answer of a store whose partitions are all empty
EmptyAnswerOfEmptyPartitions ==
    /\ EmptyUnpinnedAnswer
    /\ DOMAIN ledgers # {}
    /\ \A L \in DOMAIN ledgers : ledgers[L].events = <<>>

\* the empty answer of a store that holds an event below an empty latest ledger
EmptyAnswerAboveEvents ==
    /\ EmptyUnpinnedAnswer
    /\ latest_ledger \in DOMAIN ledgers
    /\ ledgers[latest_ledger].events = <<>>
    /\ \E L \in DOMAIN ledgers : L < latest_ledger /\ ledgers[L].events # <<>>


\* no call of insert_events, record_ledger_cached or cleanup_expired is under way
Quiescent ==
    /\ \A w \in Writers : writer[w].pc \in {"idle", "fetched", "inserted", "done"}
    /\ eviction.pc \in {"sleeping", "returned"}

\* C36: in every quiescent state, whatever the interleaving of the calls of
\* insert_events, record_ledger_cached and cleanup_expired before it,
\* latest_ledger is the greatest key of the map, or 0 for the empty map.
LatestIsGreatestKeyAtRest == Quiescent => latest_ledger = SetMax(DOMAIN entries)

\* the same as long as cleanup_expired has not been called
LatestIsGreatestKeyBeforeCleanup ==
    (Quiescent /\ eviction = Sleeping) => latest_ledger = SetMax(DOMAIN entries)

\* the steps of insert_events and of record_ledger_cached never decrease
\* latest_ledger
WritersNeverDecreaseLatest ==
    [][writer' # writer => latest_ledger' >= latest_ledger]_vars

\* at rest, the map holds a ledger above latest_ledger
LatestBelowGreatestKeyAtRest ==
    /\ Quiescent
    /\ eviction.pc = "returned"
    /\ DOMAIN entries # {}
    /\ latest_ledger < SetMax(DOMAIN entries)

OnlyExpiredRemovedOfCollected ==
    [][\A seq \in DOMAIN entries \ DOMAIN entries' :
           (partitions[entries[seq]].expires_at > now) =>
               \E h \in 1..Len(partitions) :
                   /\ h # entries[seq]
                   /\ partitions[h].ledger = seq
                   /\ partitions[h].expires_at <= now]_vars

\* cleanup_expired has collected a ledger whose entry now holds a partition
\* that is not expired
CollectedEntryReplaced ==
    /\ eviction.pc = "collected"
    /\ \E seq \in eviction.expired \cap DOMAIN entries :
           partitions[entries[seq]].expires_at > now


RECURSIVE LeadingOk(_)
\* the number of results before the first that is not Ok
LeadingOk(results) ==
    IF results = <<>> \/ Head(results) # "Ok" THEN 0 ELSE 1 + LeadingOk(Tail(results))

\* the ledgers the tailer gave to the store
StoredByTailer == {writer["tailer"].stored[i] : i \in 1..Len(writer["tailer"].stored)}

\* C33: the tailer stores the ledgers it fetched in strictly increasing
\* order and processes a batch up to the first ledger whose fetch failed
\* only; at all times every ledger from its start ledger up to, not
\* including, current_ledger was stored by it or was cached when it passed
\* it, and the values it writes to last_synced_ledger never decrease.
TailerStoresInOrder ==
    LET tailer == writer["tailer"]
    IN  /\ \A i \in 1..(Len(tailer.stored) - 1) : tailer.stored[i] < tailer.stored[i + 1]
        /\ \A i \in 1..(Len(tailer.synced) - 1) : tailer.synced[i] <= tailer.synced[i + 1]
        /\ tailer.turn_stored =
               [i \in 1..LeadingOk(tailer.results) |-> tailer.first + (i - 1)]
        /\ \A seq \in tailer.start..(tailer.current_ledger - 1) :
               /\ seq \in StoredByTailer \cup tailer.passed
               /\ seq \in DOMAIN ledgers

\* the tailer passed a cached ledger, stored the first ledger of a batch and
\* left its second, whose fetch failed
TailerStoresInOrderWitness ==
    LET tailer == writer["tailer"]
    IN  /\ tailer.passed # {}
        /\ Len(tailer.stored) >= 2
        /\ tailer.results = <<"Ok", "Error">>
        /\ tailer.turn_stored = <<tailer.first>>
        /\ tailer.current_ledger = tailer.first + 1

\* the second ledger of a batch was fetched and not stored, the first having
\* failed
FetchedBehindFailureNotStored ==
    LET tailer == writer["tailer"]
    IN  /\ tailer.results = <<"Error", "Ok">>
        /\ tailer.turn_stored = <<>>
        /\ tailer.current_ledger = tailer.first
        /\ tailer.first + 1 \notin DOMAIN ledgers


\* the remote store: the last ledger the network has closed
RemoteStart == [op |-> "remote", latest |-> 0]

\* how the fetch of ledger seq can end: with the ledger when the network has
\* closed it, with ledger-not-found when it has not, and with an error in
\* either case, at most MaxFailures times in a row
RetryOutcomes(seq) ==
    (IF seq <= last.latest THEN {"Ok"} ELSE {"LedgerNotFound"})
        \cup (IF writer["tailer"].consecutive_failures < MaxFailures THEN {"Error"} ELSE {})

RetryInit ==
    /\ ledgers = NewStore.ledgers
    /\ latest_ledger = NewStore.latest_ledger
    /\ now = 0
    /\ last = RemoteStart
    /\ eviction = Sleeping
    /\ client = Idle
    /\ entries = <<>>
    /\ partitions = <<>>
    /\ writer = [w \in Writers |-> IF w = "tailer" THEN TailerStart ELSE WriterIdle]
    /\ reader = ReaderIdle

\* the network closes the next ledger
LedgerCloses ==
    /\ last.latest < MaxTailLedger
    /\ last' = [last EXCEPT !.latest = @ + 1]
    /\ UNCHANGED <<ledgers, latest_ledger, now, eviction, client>>
    /\ UNCHANGED concVars

\* one iteration of the loop of run_sync against that remote store
TailerRetry ==
    /\ writer["tailer"].pc = "running"
    /\ writer["tailer"].current_ledger <= MaxTailLedger
    /\ LET first == SkipCached(store, writer["tailer"].current_ledger,
                               writer["tailer"].consecutive_failures, now).current_ledger
       IN  \E results \in [1..ParallelFetches -> FetchOutcomes] :
               /\ \A i \in 1..ParallelFetches : results[i] \in RetryOutcomes(first + (i - 1))
               /\ TailerFetched(results)
    /\ UNCHANGED <<now, last, eviction, client, entries, partitions, reader>>

\* a backfill caches a ledger the network has closed
BackfillClosed ==
    /\ BackfillAhead
    /\ \A seq \in DOMAIN ledgers' : seq <= last.latest

\* the clock stands still here: no partition expires
RetryNext == TailerRetry \/ TailerWake \/ BackfillClosed \/ LedgerCloses

\* the loop of run_sync has no exit and its sleeps end: the iteration and the
\* wake-up are taken when they can be
RetrySpec ==
    RetryInit /\ [][RetryNext]_vars /\ WF_vars(TailerRetry) /\ WF_vars(TailerWake)

\* C39: when the sleeps of the tailer end and no fetch of a closed ledger
\* fails forever, every ledger from the start ledger on that the network has
\* closed is in the end stored by the tailer (or was cached when the tailer
\* came to it), with current_ledger beyond it; the tailer tries the first
\* ledger that failed or is not closed yet again and again, and
\* current_ledger never goes beyond a ledger that was neither stored nor
\* cached.
TailerStoresEveryLedger ==
    /\ \A seq \in 1..MaxTailLedger :
           (last.latest >= seq) ~>
               /\ seq \in StoredByTailer \cup writer["tailer"].passed
               /\ writer["tailer"].current_ledger > seq
    /\ [](\A seq \in writer["tailer"].start..(writer["tailer"].current_ledger - 1) :
              seq \in StoredByTailer \cup writer["tailer"].passed)

\* the network has closed every ledger and the tailer is beyond the last,
\* each stored by it or cached when it came to it
TailerStoredEveryLedger ==
    /\ last.latest = MaxTailLedger
    /\ writer["tailer"].current_ledger > MaxTailLedger
    /\ MaxTailLedger \in StoredByTailer
    /\ \A seq \in 1..MaxTailLedger : seq \in StoredByTailer \cup writer["tailer"].passed

\* the fetch of a closed ledger has failed MaxFailures times in a row and
\* the tailer is about to fetch it again
RetriesAfterFailures ==
    /\ writer["tailer"].pc = "running"
    /\ writer["tailer"].consecutive_failures = MaxFailures
    /\ writer["tailer"].current_ledger <= last.latest
    /\ writer["tailer"].current_ledger \notin DOMAIN ledgers

\* the tailer waits at a ledger the network has not closed
WaitsForLedger ==
    /\ writer["tailer"].ended = "NotFound"
    /\ writer["tailer"].pc = "sleeping"
    /\ writer["tailer"].current_ledger = last.latest + 1
    /\ writer["tailer"].current_ledger > 1


(***************************************************************************)
(* A client that polls for new events: a first request with after = c,     *)
(* then the same request with after set to the next of the last response   *)
(* that had one.  Each request runs list_events: the backfill from the     *)
(* ledger of its cursor, then the query.  Beside it the tailer stores the  *)
(* ledgers it reaches and the requests of other clients backfill theirs.   *)
(* Every ledger of the remote store holds the two events of the pool; the  *)
(* clock stands still, so that no partition expires or is evicted.         *)
(***************************************************************************)
\* what the remote data store holds for a ledger, in extraction order
ClosedLedger(seq) ==
    <<ExtractedEvent(seq, "AfterTx", 0), ExtractedEvent(seq, "Operation", 0)>>

\* insert_events and record_ledger_cached of a fetched ledger
StoreLedger(s, seq, t) == record_ledger_cached(insert_events(s, ClosedLedger(seq), t), seq, t)

\* backfill_if_needed(state, target_ledger) against that remote store, the
\* fetches ending as outcome says: the turns of its loop touch the partition
\* of their own ledger only
BackfillClosedLedgers(s, target_ledger, outcome, t) ==
    LET uncached == Uncached(s, target_ledger, t)
        turn == [seq \in uncached |->
                    IF outcome[seq] = "Ok" THEN StoreLedger(s, seq, t) ELSE s]
        keys == DOMAIN s.ledgers \cup UNION {DOMAIN turn[seq].ledgers : seq \in uncached}
        latest == {s.latest_ledger} \cup {turn[seq].latest_ledger : seq \in uncached}
    IN  [ledgers       |-> [k \in keys |-> IF k \in DOMAIN s.ledgers THEN s.ledgers[k]
                                           ELSE turn[k].ledgers[k]],
         latest_ledger |-> CHOOSE x \in latest : \A y \in latest : y <= x]

\* the tailer stores the ledger it has reached: its start ledger, then the
\* next one
TailerStores ==
    /\ last = NoCall
    /\ \E seq \in 1..MaxLedger :
           /\ seq \notin DOMAIN ledgers
           /\ latest_ledger = 0 \/ seq = latest_ledger + 1
           /\ SetStore(StoreLedger(store, seq, now))
    /\ UNCHANGED <<now, last, eviction, client>>
    /\ UNCHANGED concVars

\* the request of another client for a ledger: its backfill
RequestBackfills ==
    /\ last = NoCall
    /\ \E target_ledger \in 1..MaxLedger :
           \E outcome \in Outcomes(Uncached(store, target_ledger, now)) :
               /\ Uncached(store, target_ledger, now) # {}
               /\ SetStore(BackfillClosedLedgers(store, target_ledger, outcome, now))
    /\ UNCHANGED <<now, last, eviction, client>>
    /\ UNCHANGED concVars

StartPolling ==
    /\ last = NoCall /\ client = Idle
    /\ \E c \in Cursors, limit \in 1..MaxLimit, filters \in FilterLists :
           client' = [phase |-> "polling", limit |-> limit, filters |-> filters,
                      start |-> c, after |-> Some(c), received |-> {}]
    /\ UNCHANGED <<ledgers, latest_ledger, now, last, eviction>>
    /\ UNCHANGED concVars

\* one request of the polling client and its response
Poll ==
    /\ client.phase = "polling"
    /\ LET params == [limit |-> client.limit, after |-> client.after, before |-> None,
                      ledger |-> None, tx |-> None, filters |-> client.filters]
           target_ledger == Unwrap(CursorLedger(Unwrap(client.after)))
       IN  \E outcome \in Outcomes(Uncached(store, target_ledger, now)) :
               \E filled \in {BackfillClosedLedgers(store, target_ledger, outcome, now)} :
                   \E result \in query_events(filled, params) :
                       /\ SetStore(filled)
                       /\ client' = [client EXCEPT
                              !.after = IF IsSome(result.next)
                                        THEN BeforeCursor(Unwrap(result.next))
                                        ELSE client.after,
                              !.received = @ \cup {result.data[i].internal_id :
                                                      i \in 1..Len(result.data)}]
    /\ UNCHANGED <<now, last, eviction>>
    /\ UNCHANGED concVars

PollNext == TailerStores \/ RequestBackfills \/ StartPolling \/ Poll

\* the polling client beside the tailer and the backfills of other requests
PollSpec == Init /\ [][PollNext]_vars

\* the request of the polling client, as query_events sees it
PollParams ==
    [limit |-> client.limit, after |-> client.after, before |-> None, ledger |-> None,
     tx |-> None, filters |-> client.filters]

\* the store holds event e, the client asks for it and has not received it
Owed(e) ==
    /\ client.phase = "polling"
    /\ StoredEvent(e).id \in StoredIds
    /\ event_matches(StoredEvent(e), PollParams)
    /\ StoredEvent(e).id \notin client.received

\* C38: a client that polls from a cursor c with after set to the latest
\* next it received receives in the end every event of the store that
\* matches its filters and has an id above c, in whatever order the tailer
\* and the backfills store the ledgers.  Its cursor never goes down and a
\* request returns events above its cursor only, so that at no time an
\* event of the store that matches, has an id above c and was not received
\* lies at or below the cursor the client has come to.
PollerMissesNoEvent ==
    \A e \in EventPool :
        (Owed(e) /\ StrLess(client.start, StoredEvent(e).id)) =>
            StrLess(Unwrap(client.after), StoredEvent(e).id)

\* a request of the polling client returns events above its cursor only
PollReturnsAboveCursor ==
    [][(client.phase = "polling" /\ client'.phase = "polling") =>
           \A id \in client'.received \ client.received :
               StrLess(Unwrap(client.after), id)]_vars

\* a request of the polling client leaves no event behind that the store
\* holds when it is answered: it returns every matching event between its
\* cursor and the cursor of the next request
PollLeavesNothingBehind ==
    [][(client.phase = "polling" /\ client'.phase = "polling") =>
           \A e \in EventPool :
               (/\ StoredEvent(e).id \in StoredIds'
                /\ event_matches(StoredEvent(e), PollParams)
                /\ StrLess(Unwrap(client.after), StoredEvent(e).id)
                /\ ~StrLess(Unwrap(client'.after), StoredEvent(e).id))
                   => StoredEvent(e).id \in client'.received]_vars

\* the cursor of the polling client never goes down
PollCursorNeverDecreases ==
    [][(client.phase = "polling" /\ client'.phase = "polling") =>
           ~StrLess(Unwrap(client'.after), Unwrap(client.after))]_vars

\* the store holds a matching event between the cursor the client started
\* from and the cursor it has come to, which it has not received
EventBehindCursor ==
    \E e \in EventPool :
        /\ Owed(e)
        /\ StrLess(client.start, StoredEvent(e).id)
        /\ StrLess(StoredEvent(e).id, Unwrap(client.after))

\* the client has received events of two ledgers
ReceivedAcrossLedgers ==
    /\ client.phase = "polling"
    /\ \E e1, e2 \in EventPool :
           /\ e1.ledger_sequence < e2.ledger_sequence
           /\ {StoredEvent(e1).id, StoredEvent(e2).id} \subseteq client.received

=============================================================================
